---- MODULE Spec2Model ----
(***************************************************************************)
(* alphaforge: temporal-correctness and caching core.                      *)
(*                                                                         *)
(*   SpecPIT  the bitemporal observation store (alphaforge/pit/accessor.py)*)
(*            upsert_pit_observations, get_snapshot, get_revision_timeline *)
(*   SpecId   FeatureRealization.id (alphaforge/features/realization.py)   *)
(*   SpecMat  materialize (alphaforge/features/ops.py), one caller, over a *)
(*            DuckDBParquetStore (alphaforge/store/duckdb_parquet.py)      *)
(*   SpecMatAlways  the same, every call with persist_mode = "always"      *)
(*   SpecRace two callers of materialize interleaving on one store         *)
(*   SpecCal  TradingCalendar and the grid builders (alphaforge/time/       *)
(*            calendar.py, grids.py, event_grid.py)                        *)
(*   SpecAlign  align_panel (alphaforge/time/align.py)                     *)
(*   SpecAlignPair  align_panel called twice on related arguments          *)
(*   SpecRef  RefPeriod and the reference entity ids (alphaforge/time/     *)
(*            ref_period.py, alphaforge/pit/ref_entity.py)                 *)
(*   SpecDataset  build_dataset (alphaforge/features/dataset_builder.py)   *)
(*   SpecUpsert  upsert_pit_observations over all columns of the table     *)
(*                                                                         *)
(* Each specification moves its own variables and leaves the others at     *)
(* their initial values.                                                   *)
(*                                                                         *)
(* Time is an integer count of an arbitrary unit.  A timestamp handed to   *)
(* the accessor is a record [wall, tz]: a wall-clock reading and the zone  *)
(* it is expressed in ("naive" = no zone attached).  The table stores      *)
(* UTC-naive timestamps (DuckDB TIMESTAMP).                                *)
(***************************************************************************)
EXTENDS Integers, Sequences, FiniteSets, TLC

VARIABLES
    table,      \* pit_observations: the set of stored rows
    lastOp,     \* the last accessor call (observation only): its outcome, the
                \* rows the statement applied and whether all their keys were
                \* stored before it
    rA, rB,     \* two FeatureRealization objects
    idA, idB,   \* what id() returned for them (NoId before the call)
    frames,     \* DuckDBParquetStore: the frames index with the files it names
    states,     \* DuckDBParquetStore: the stored fit states
    lineage,    \* the caller's LineageGraph, or None
    tcalls,     \* template.transform invocations so far, per realization id
    builds,     \* calls that invoked transform and returned, per realization id
    returned,   \* the realization ids a call has returned a frame for
    ncalls,     \* materialize calls so far
    lastCall,   \* the last materialize call (observation only)
    callers,    \* concurrent callers: position in materialize, arguments, locals
    putLog,     \* the put_frame calls of the concurrent callers, in order
    cal,        \* a TradingCalendar
    calCall,    \* the last call on the calendar or a grid builder (observation only)
    alignCall,  \* the last align_panel call (observation only)
    refCall,    \* the last call on a reference period or entity id (observation only)
    dsCall,     \* the last build_dataset call (observation only)
    alignPair,  \* two align_panel calls made one after the other (observation only)
    fullTable,  \* pit_observations with all its columns
    fullOp      \* the last upsert on it (observation only)

pitVars == <<table, lastOp>>
idVars == <<rA, rB, idA, idB>>
matVars == <<frames, states, lineage, tcalls, builds, returned, ncalls, lastCall>>
raceVars == <<callers, putLog>>
calVars == <<cal, calCall>>
alignVars == <<alignCall>>
timeVars == <<calVars, alignVars>>
refVars == <<refCall>>
dsVars == <<dsCall>>
pairVars == <<alignPair>>
fullVars == <<fullTable, fullOp>>
extVars == <<refVars, dsVars, pairVars, fullVars>>
vars == <<table, lastOp, rA, rB, idA, idB, frames, states, lineage, tcalls, builds,
          returned, ncalls, lastCall, callers, putLog, cal, calCall, alignCall,
          refCall, dsCall, alignPair, fullTable, fullOp>>

\* Python None where a timestamp is optional.
None == [wall |-> 0, tz |-> "None"]

-----------------------------------------------------------------------------
(* Bounds and sample domains                                               *)

MaxRows == 3       \* the table holds at most MaxRows rows

SeriesKeys  == {"GDP", "CPI"}
ObsDates    == {1, 2}          \* observation period ends
AsofTimes   == {1, 2}          \* as-of instants (UTC)
\* The observations that exist to be ingested: two periods of GDP with two
\* vintages each, and one observation of CPI (series, period end, as-of).
Observations ==
    {<<"GDP", 1, 1>>, <<"GDP", 1, 2>>, <<"GDP", 2, 1>>, <<"GDP", 2, 2>>,
     <<"CPI", 1, 1>>}
QueryTimes  == {0, 1, 2}       \* query instants (UTC)
Values      == {1, 2}
Zones       == {"UTC", "+01:00"}
BatchSizes  == {1, 2}          \* rows per incoming frame

\* Offset of a zone from UTC, in time units.
UtcOffset(tz) == IF tz = "+01:00" THEN 1 ELSE 0

-----------------------------------------------------------------------------
(* Timestamp conversions                                                   *)

\* to_utc_naive: None stays None; a naive value is taken to be UTC; an aware
\* value is converted to UTC; the zone is then dropped.
to_utc_naive(value) ==
    IF value = None THEN None
    ELSE IF value.tz = "naive" THEN [wall |-> value.wall, tz |-> "naive"]
    ELSE [wall |-> value.wall - UtcOffset(value.tz), tz |-> "naive"]

\* to_utc_aware: None stays None; a naive value is labelled UTC; an aware value
\* is converted to UTC.
to_utc_aware(value) ==
    IF value = None THEN None
    ELSE IF value.tz = "naive" THEN [wall |-> value.wall, tz |-> "UTC"]
    ELSE [wall |-> value.wall - UtcOffset(value.tz), tz |-> "UTC"]

\* A UTC-naive instant as the table stores it.
Naive(n) == [wall |-> n, tz |-> "naive"]

-----------------------------------------------------------------------------
(* Inputs                                                                  *)

\* obs_date is given naive (a calendar date); asof_utc is a tz-aware column,
\* all rows of one frame in the column's zone z.
ObsInputs     == {[wall |-> d, tz |-> "naive"] : d \in ObsDates}

InRows(z) ==
    {[series_key |-> o[1],
      obs_date   |-> [wall |-> o[2], tz |-> "naive"],
      asof_utc   |-> [wall |-> o[3] + UtcOffset(z), tz |-> z],
      value      |-> v] : o \in Observations, v \in Values}

\* The frames handed to upsert_pit_observations.
Batches == UNION {[1..k -> InRows(z)] : k \in BatchSizes, z \in Zones}

\* Query instants, in any zone, from before the first to the last as-of.
QueryInstants == {[wall |-> a + UtcOffset(z), tz |-> z] : a \in QueryTimes, z \in Zones}
ObsBounds     == {None} \cup ObsInputs
AsofBounds    == {None} \cup QueryInstants

RequiredColumns == {"series_key", "obs_date", "asof_utc", "value"}

-----------------------------------------------------------------------------
(* The table                                                               *)

\* UNIQUE(series_key, obs_date, asof_utc)
NaturalKey(r) == <<r.series_key, r.obs_date, r.asof_utc>>

\* _normalize_datetime_columns on one incoming row.
NormalizeRow(r) ==
    [series_key |-> r.series_key,
     obs_date   |-> to_utc_naive(r.obs_date),
     asof_utc   |-> to_utc_naive(r.asof_utc),
     value      |-> r.value]

BatchKeys(b) == {NaturalKey(NormalizeRow(b[i])) : i \in DOMAIN b}

DistinctKeys(b) ==
    \A i, j \in DOMAIN b :
        i # j => NaturalKey(NormalizeRow(b[i])) # NaturalKey(NormalizeRow(b[j]))

\* Of several incoming rows with one key, the last one in the batch.
KeepLast(b) ==
    {NormalizeRow(b[i]) : i \in {k \in DOMAIN b :
        \A j \in DOMAIN b :
            j > k => NaturalKey(NormalizeRow(b[j])) # NaturalKey(NormalizeRow(b[k]))}}

\* The stored rows whose natural key comes in with `rows`.
Conflicting(t, rows) == {q \in t : \E r \in rows : NaturalKey(r) = NaturalKey(q)}

\* INSERT ... ON CONFLICT(series_key, obs_date, asof_utc) DO UPDATE SET ...
\* A stored row whose key comes in is replaced by the incoming row.
MutInsertValueOnly(t, rows) ==
    {q \in t : \A r \in rows : NaturalKey(r) # NaturalKey(q)}
    \cup {r \in rows : \A q \in t : NaturalKey(q) # NaturalKey(r)}
    \cup {[q EXCEPT !.value = (CHOOSE r \in rows : NaturalKey(r) = NaturalKey(q)).value] :
              q \in Conflicting(t, rows)}
MutInsertNoConflictCheck(t, rows) == t \cup rows
MutInsertDoNothing(t, rows) ==
    t \cup {r \in rows : \A q \in t : NaturalKey(q) # NaturalKey(r)}
InsertOnConflictUpdate(t, rows) ==
    {q \in t : \A r \in rows : NaturalKey(r) # NaturalKey(q)} \cup rows

TypeOK ==
    /\ table \subseteq [series_key : SeriesKeys,
                        obs_date : {Naive(d) : d \in ObsDates},
                        asof_utc : {Naive(a) : a \in AsofTimes},
                        value : Values]
    /\ Cardinality(table) <= MaxRows

-----------------------------------------------------------------------------
(* upsert_pit_observations                                                 *)

\* A required column is missing: ValueError before anything is written.
upsert_missing_columns ==
    /\ \E missing \in (SUBSET RequiredColumns) \ {{}} :
          lastOp' = [op |-> "upsert", outcome |-> "ValueError",
                     incoming |-> {}, all_stored |-> FALSE]
    /\ UNCHANGED table
    /\ UNCHANGED <<idVars, matVars, raceVars, timeVars, extVars>>

\* The batch's rows have pairwise distinct natural keys: one atomic statement.
upsert_pit_observations(b) ==
    /\ DistinctKeys(b)
    /\ LET t2 == InsertOnConflictUpdate(table, KeepLast(b))
       IN /\ Cardinality(t2) <= MaxRows
          /\ table' = t2
    /\ lastOp' = [op |-> "upsert", outcome |-> "ok",
                  incoming |-> KeepLast(b),
                  all_stored |-> BatchKeys(b) \subseteq {NaturalKey(q) : q \in table}]
    /\ UNCHANGED <<idVars, matVars, raceVars, timeVars, extVars>>

\* Two incoming rows share a natural key.  What the engine does with them is
\* not fixed by the accessor: the statement is rejected as a whole ...
upsert_duplicate_rejected(b) ==
    /\ ~DistinctKeys(b)
    /\ UNCHANGED table
    /\ lastOp' = [op |-> "upsert", outcome |-> "ConstraintError",
                  incoming |-> {}, all_stored |-> FALSE]
    /\ UNCHANGED <<idVars, matVars, raceVars, timeVars, extVars>>

\* ... or the last incoming row of each key is the one applied.
upsert_duplicate_last_wins(b) ==
    /\ ~DistinctKeys(b)
    /\ LET t2 == InsertOnConflictUpdate(table, KeepLast(b))
       IN /\ Cardinality(t2) <= MaxRows
          /\ table' = t2
    /\ lastOp' = [op |-> "upsert", outcome |-> "ok",
                  incoming |-> KeepLast(b),
                  all_stored |-> BatchKeys(b) \subseteq {NaturalKey(q) : q \in table}]
    /\ UNCHANGED <<idVars, matVars, raceVars, timeVars, extVars>>

-----------------------------------------------------------------------------
(* Sorting helpers: the rows of S as a sequence in the ORDER BY order.     *)

\* ORDER BY obs_date
RECURSIVE OrderByObsDate(_)
OrderByObsDate(S) ==
    IF S = {} THEN <<>>
    ELSE LET m == CHOOSE x \in S : \A y \in S : x.obs_date.wall <= y.obs_date.wall
         IN <<m>> \o OrderByObsDate(S \ {m})

\* ORDER BY asof_utc ASC
RECURSIVE MutOrderByAsofDesc(_)
MutOrderByAsofDesc(S) ==
    IF S = {} THEN <<>>
    ELSE LET m == CHOOSE x \in S : \A y \in S : x.asof_utc.wall >= y.asof_utc.wall
         IN <<m>> \o MutOrderByAsofDesc(S \ {m})
RECURSIVE OrderByAsofAsc(_)
OrderByAsofAsc(S) ==
    IF S = {} THEN <<>>
    ELSE LET m == CHOOSE x \in S : \A y \in S : x.asof_utc.wall <= y.asof_utc.wall
         IN <<m>> \o OrderByAsofAsc(S \ {m})

-----------------------------------------------------------------------------
(* get_snapshot                                                            *)

\* WHERE series_key = ? AND asof_utc <= ? [AND obs_date >= ?] [AND obs_date <= ?]
MutSnapshotWhereNoAsof(t, series_key, asof_ts, start_ts, end_ts) ==
    {r \in t :
        /\ r.series_key = series_key
        /\ start_ts # None => r.obs_date.wall >= start_ts.wall
        /\ end_ts # None => r.obs_date.wall <= end_ts.wall}
MutSnapshotWhereStrict(t, series_key, asof_ts, start_ts, end_ts) ==
    {r \in t :
        /\ r.series_key = series_key
        /\ r.asof_utc.wall < asof_ts.wall
        /\ start_ts # None => r.obs_date.wall >= start_ts.wall
        /\ end_ts # None => r.obs_date.wall <= end_ts.wall}
SnapshotWhere(t, series_key, asof_ts, start_ts, end_ts) ==
    {r \in t :
        /\ r.series_key = series_key
        /\ r.asof_utc.wall <= asof_ts.wall
        /\ start_ts # None => r.obs_date.wall >= start_ts.wall
        /\ end_ts # None => r.obs_date.wall <= end_ts.wall}

\* ROW_NUMBER() OVER (PARTITION BY obs_date ORDER BY asof_utc DESC): the rows
\* that may be numbered 1 in their partition.  Rows of one partition with equal
\* asof_utc are numbered in an order the engine chooses, so each of them may.
MutRankFirstAsc(filtered) ==
    {r \in filtered :
        \A q \in filtered : q.obs_date = r.obs_date => q.asof_utc.wall >= r.asof_utc.wall}
RankFirst(filtered) ==
    {r \in filtered :
        \A q \in filtered : q.obs_date = r.obs_date => q.asof_utc.wall <= r.asof_utc.wall}

\* The possible outcomes of "WHERE rn = 1": one row per partition.
RankedChoices(filtered) ==
    LET cand == RankFirst(filtered)
        parts == {r.obs_date : r \in cand}
    IN {pick \in SUBSET cand :
            \A d \in parts : Cardinality({r \in pick : r.obs_date = d}) = 1}

\* The series built from the chosen rows: ORDER BY obs_date, index made
\* UTC-aware.  An empty result is the empty series.
SnapshotSeries(pick) ==
    LET s == OrderByObsDate(pick)
    IN [i \in DOMAIN s |-> [obs_date |-> to_utc_aware(s[i].obs_date),
                            value |-> s[i].value]]

\* Every series get_snapshot may return from table t.
get_snapshot(t, series_key, asof, start, end) ==
    LET filtered == SnapshotWhere(t, series_key, to_utc_naive(asof),
                                  to_utc_naive(start), to_utc_naive(end))
    IN {SnapshotSeries(pick) : pick \in RankedChoices(filtered)}

-----------------------------------------------------------------------------
(* get_revision_timeline                                                   *)

\* WHERE series_key = ? AND obs_date = ? [AND asof_utc >= ?] [AND asof_utc <= ?]
MutTimelineWhereAnyPeriod(t, series_key, obs_ts, start_ts, end_ts) ==
    {r \in t :
        /\ r.series_key = series_key
        /\ start_ts # None => r.asof_utc.wall >= start_ts.wall
        /\ end_ts # None => r.asof_utc.wall <= end_ts.wall}
TimelineWhere(t, series_key, obs_ts, start_ts, end_ts) ==
    {r \in t :
        /\ r.series_key = series_key
        /\ r.obs_date = obs_ts
        /\ start_ts # None => r.asof_utc.wall >= start_ts.wall
        /\ end_ts # None => r.asof_utc.wall <= end_ts.wall}

\* ORDER BY asof_utc ASC, index made UTC-aware.
get_revision_timeline(t, series_key, obs_date, start_asof, end_asof) ==
    LET rows == TimelineWhere(t, series_key, to_utc_naive(obs_date),
                              to_utc_naive(start_asof), to_utc_naive(end_asof))
        s == OrderByAsofAsc(rows)
    IN [i \in DOMAIN s |-> [asof_utc |-> to_utc_aware(s[i].asof_utc),
                            value |-> s[i].value]]

-----------------------------------------------------------------------------
(* FeatureRealization.id  (alphaforge/features/realization.py)             *)
(*                                                                         *)
(* An Optional[...] field other than a timestamp is <<>> for None and <<x>>*)
(* for the value x.  params is a dict: the sequence of its (key, value)    *)
(* items in insertion order, keys pairwise distinct.  A parameter value is *)
(* [py, repr]: its Python type and its literal.                            *)

PyInt(n) == [py |-> "int", repr |-> ToString(n)]
PyStr(s) == [py |-> "str", repr |-> s]

\* The parameter names of the sample, in sorted (code point) order.
ParamNames == <<"lags", "window">>
ParamValues == {PyInt(5), PyInt(6), PyStr("5")}

\* Every dict over the sample's names, in every insertion order.
ParamDicts ==
    {<<>>}
    \cup {<<<<ParamNames[i], v>>>> : i \in DOMAIN ParamNames, v \in ParamValues}
    \cup {<<<<ParamNames[i], v>>, <<ParamNames[j], w>>>> :
            <<i, j>> \in {p \in (DOMAIN ParamNames) \X (DOMAIN ParamNames) : p[1] # p[2]},
            <<v, w>> \in ParamValues \X ParamValues}

\* The dict as a mapping: its items without their order (dict equality).
ParamItems(params) == {params[i] : i \in DOMAIN params}

\* str(pd.Timestamp): the wall-clock reading, followed by the UTC offset when
\* the timestamp is tz-aware.
StrTimestamp(ts) ==
    ToString(ts.wall) \o (IF ts.tz = "naive" THEN ""
                          ELSE IF ts.tz = "UTC" THEN "+00:00" ELSE ts.tz)

\* json.dumps of a str / of an Optional[str].
JsonString(s) == "\"" \o s \o "\""
JsonOptString(o) == IF o = <<>> THEN "null" ELSE JsonString(o[1])

\* json.dumps of a parameter value.
JsonValue(v) == IF v.py = "str" THEN JsonString(v.repr) ELSE v.repr

\* json.dumps of a list of str, separators=(",", ":").
RECURSIVE JsonList(_)
JsonList(xs) ==
    IF xs = <<>> THEN ""
    ELSE JsonString(Head(xs)) \o (IF Len(xs) > 1 THEN "," ELSE "") \o JsonList(Tail(xs))

KeyRank(k) == CHOOSE i \in DOMAIN ParamNames : ParamNames[i] = k

\* sort_keys=True: the items of a dict in the order of their keys.
MutNoSortKeys(items) == items
RECURSIVE SortKeys(_)
SortKeys(items) ==
    IF items = <<>> THEN <<>>
    ELSE LET i == CHOOSE a \in DOMAIN items :
                      \A b \in DOMAIN items : KeyRank(items[a][1]) <= KeyRank(items[b][1])
         IN <<items[i]>> \o SortKeys(SubSeq(items, 1, i - 1) \o SubSeq(items, i + 1, Len(items)))

RECURSIVE JsonItems(_)
JsonItems(items) ==
    IF items = <<>> THEN ""
    ELSE JsonString(Head(items)[1]) \o ":" \o JsonValue(Head(items)[2])
         \o (IF Len(items) > 1 THEN "," ELSE "") \o JsonItems(Tail(items))

\* json.dumps of the params dict.
JsonDict(params) == "{" \o JsonItems(SortKeys(params)) \o "}"

\* The payload dict built by id(): start and end through str(), entities
\* through list(), asof through str() unless None.
id_payload(self) ==
    [template |-> self.template,
     version  |-> self.version,
     params   |-> self.params,
     slice    |-> [start    |-> StrTimestamp(self.slice.start),
                   end      |-> StrTimestamp(self.slice.end),
                   entities |-> self.slice.entities,
                   asof     |-> IF self.slice.asof # None
                                THEN <<StrTimestamp(self.slice.asof)>> ELSE <<>>,
                   grid     |-> self.slice.grid],
     upstream_snapshot |-> self.upstream_snapshot]

\* _stable_json(payload): keys of every object in sorted order, no spaces.
stable_json(x) ==
    "{\"params\":" \o JsonDict(x.params)
    \o ",\"slice\":{\"asof\":" \o JsonOptString(x.slice.asof)
    \o ",\"end\":" \o JsonString(x.slice.end)
    \o ",\"entities\":" \o (IF x.slice.entities = <<>> THEN "null"
                            ELSE "[" \o JsonList(x.slice.entities[1]) \o "]")
    \o ",\"grid\":" \o JsonOptString(x.slice.grid)
    \o ",\"start\":" \o JsonString(x.slice.start)
    \o "},\"template\":" \o JsonString(x.template)
    \o ",\"upstream_snapshot\":" \o JsonOptString(x.upstream_snapshot)
    \o ",\"version\":" \o JsonString(x.version) \o "}"

\* hashlib.sha256(...).hexdigest()[:16], taken to be collision-free: the
\* digest of a text is written as the text it digests.
sha256_hex16(text) == "sha256(" \o text \o ")"

\* FeatureRealization.id()
id(self) ==
    self.template \o ":" \o self.version \o ":" \o sha256_hex16(stable_json(id_payload(self)))

\* Sample values of the fields of a realization.
TemplateNames == {"lag_returns", "zscore"}
Versions      == {"1.0", "1.1"}
SliceStarts   == {[wall |-> 1, tz |-> "naive"], [wall |-> 2, tz |-> "naive"]}
SliceEnds     == {[wall |-> 3, tz |-> "naive"], [wall |-> 4, tz |-> "naive"]}
EntityLists   == {<<>>, <<<<>>>>, <<<<"AAA">>>>, <<<<"AAA", "BBB">>>>, <<<<"BBB", "AAA">>>>}
SliceAsofs    == {None, [wall |-> 2, tz |-> "UTC"], [wall |-> 3, tz |-> "+01:00"]}
Grids         == {<<>>, <<"B">>, <<"sessions:XNYS">>}
Snapshots     == {<<>>, <<"snap1">>, <<"snap2">>}

\* The realizations the first id is taken of: every params dict, entity list
\* and as-of, the other fields at one value each.
FirstRealizations ==
    {r \in [template : {"lag_returns"}, version : {"1.0"}, params : ParamDicts,
            slice : [start : {[wall |-> 1, tz |-> "naive"]},
                     end : {[wall |-> 3, tz |-> "naive"]},
                     entities : EntityLists, asof : SliceAsofs,
                     grid : {<<"sessions:XNYS">>}],
            upstream_snapshot : {<<>>}] : TRUE}

\* The realizations compared with r: r itself and every realization that
\* differs from r in the value of one field (for params: any other dict).
OneFieldApart(r) ==
    {[r EXCEPT !.template = x] : x \in TemplateNames}
    \cup {[r EXCEPT !.version = x] : x \in Versions}
    \cup {[r EXCEPT !.params = x] : x \in ParamDicts}
    \cup {[r EXCEPT !.slice.start = x] : x \in SliceStarts}
    \cup {[r EXCEPT !.slice.end = x] : x \in SliceEnds}
    \cup {[r EXCEPT !.slice.entities = x] : x \in EntityLists}
    \cup {[r EXCEPT !.slice.asof = x] : x \in SliceAsofs}
    \cup {[r EXCEPT !.slice.grid = x] : x \in Grids}
    \cup {[r EXCEPT !.upstream_snapshot = x] : x \in Snapshots}

NoId == ""

IdIdle ==
    /\ rA = CHOOSE r \in FirstRealizations : r.params = <<>> /\ r.slice.entities = <<>>
                                              /\ r.slice.asof = None
    /\ rB = rA
    /\ idA = NoId /\ idB = NoId

-----------------------------------------------------------------------------
(* materialize  (alphaforge/features/ops.py) over a DuckDBParquetStore     *)
(*                                                                         *)
(* An Optional frame or fit state is <<>> for None and <<x>> for x.        *)

PersistModes == {"never", "selected", "always"}
MaterializationPolicies == [cache_ephemeral : {TRUE}, persist_mode : PersistModes]

\* The slice of the realizations that are materialized, and a training slice
\* a caller may pass as fit_slice.
FullSlice ==
    [start |-> [wall |-> 1, tz |-> "naive"], end |-> [wall |-> 4, tz |-> "naive"],
     entities |-> <<<<"AAA">>>>, asof |-> None, grid |-> <<"sessions:XNYS">>]
TrainSlice == [FullSlice EXCEPT !.end = [wall |-> 3, tz |-> "naive"]]

\* fit_slice: Optional[SliceSpec]
FitSlices == {<<>>, <<TrainSlice>>}

MatRealizations ==
    {[template |-> "lag_returns", version |-> "1.0",
      params |-> <<<<"lags", v>>>>, slice |-> FullSlice, upstream_snapshot |-> <<>>] :
        v \in {PyInt(5), PyInt(6)}}

\* realization.id() of the realizations that are materialized.
rid_of == [r \in MatRealizations |-> id(r)]
RealizationIds == {rid_of[r] : r \in MatRealizations}

\* Template objects: implementations of the FeatureTemplate protocol.  All
\* three carry the name and version the realizations name.
\*   stateless   fit returns None (the protocol's default)
\*   stateful    fit returns a FitState learnt from the slice it is given
\*   fit_raises  fit raises
TemplateImpls == {"stateless", "stateful", "fit_raises"}
Templates == [name : {"lag_returns"}, version : {"1.0"}, impl : TemplateImpls]

\* What a call of transform does: return a frame, return a frame whose X has
\* a flat index, or raise.
TransformResults == {"frame", "flat_index", "raises"}

\* template.fit(ctx, params, fit_slice): [raised, st].
fit(template, params, fit_slice) ==
    IF template.impl = "fit_raises" THEN [raised |-> TRUE, st |-> <<>>]
    ELSE IF template.impl = "stateful"
    THEN [raised |-> FALSE,
          st |-> <<[state_id |-> "fit:" \o JsonDict(params) \o ":"
                                  \o StrTimestamp(fit_slice.start) \o ":"
                                  \o StrTimestamp(fit_slice.end),
                    meta |-> [fit_slice |-> fit_slice]]>>]
    ELSE [raised |-> FALSE, st |-> <<>>]

\* template.transform(ctx, params, slice, state): the frame is a function of
\* what transform is given.
transform(template, params, slice, state, tr) ==
    [X |-> [index |-> IF tr = "flat_index" THEN "Index" ELSE "MultiIndex",
            columns |-> {"f"},
            values |-> [params |-> ParamItems(params), slice |-> slice,
                        state |-> IF state = <<>> THEN <<>> ELSE <<state[1].state_id>>]],
     catalog |-> {"f"},
     meta |-> [ok |-> TRUE]]

\* A Python value held in a frame's meta: its type and its str().
PyTimestamp(ts) ==
    IF ts = None THEN [py |-> "NoneType", repr |-> "None"]
    ELSE [py |-> "Timestamp", repr |-> StrTimestamp(ts)]

\* frame.meta = {**frame.meta, "realization_id": rid, ...}
StampMeta(frame, rid, realization) ==
    [frame EXCEPT !.meta =
          [ok |-> frame.meta.ok,
           realization_id |-> rid,
           template |-> realization.template,
           version |-> realization.version,
           params |-> ParamItems(realization.params),
           slice |-> [start |-> PyTimestamp(realization.slice.start),
                      end |-> PyTimestamp(realization.slice.end),
                      entities |-> realization.slice.entities,
                      asof |-> PyTimestamp(realization.slice.asof),
                      grid |-> realization.slice.grid],
           upstream_snapshot |-> realization.upstream_snapshot]]

\* FeatureFrame.validate(): TRUE when it raises.
validate_raises(frame) ==
    \/ frame.X.index # "MultiIndex"
    \/ /\ frame.X.columns # {} /\ frame.catalog # {}
       /\ ~(frame.X.columns \subseteq frame.catalog)

\* json.dump(meta, default=str) followed by json.load: a Timestamp comes back
\* as the str it was written as; None, str, int and list come back as they were.
JsonDefaultStr(v) == IF v.py = "Timestamp" THEN [py |-> "str", repr |-> v.repr] ELSE v
json_roundtrip(meta) ==
    [meta EXCEPT !.slice.start = JsonDefaultStr(@),
                 !.slice.end = JsonDefaultStr(@),
                 !.slice.asof = JsonDefaultStr(@)]

\* What put_frame leaves on disk for get_frame to read: X.parquet,
\* catalog.parquet and meta.json.
StoredFrame(frame) ==
    [X |-> frame.X, catalog |-> frame.catalog, meta |-> json_roundtrip(frame.meta)]

\* The frames index joined with the files its rows point to: rows
\* [realization_id, frame], realization_id being the PRIMARY KEY.
\* DuckDBParquetStore.get_frame
MutGetFrameAlwaysMiss(t, realization_id) == <<>>
get_frame(t, realization_id) ==
    IF \E q \in t : q.realization_id = realization_id
    THEN <<(CHOOSE q \in t : q.realization_id = realization_id).frame>>
    ELSE <<>>

\* DuckDBParquetStore.put_frame: the three files are written, then
\* INSERT ... ON CONFLICT(realization_id) DO UPDATE.
MutPutFrameFirstWins(t, realization_id, frame) ==
    IF \E q \in t : q.realization_id = realization_id THEN t
    ELSE t \cup {[realization_id |-> realization_id, frame |-> StoredFrame(frame)]}
put_frame(t, realization_id, frame) ==
    {q \in t : q.realization_id # realization_id}
    \cup {[realization_id |-> realization_id, frame |-> StoredFrame(frame)]}

\* DuckDBParquetStore.put_state: states index by state_id, ON CONFLICT DO UPDATE.
MutPutStateDropped(s, state) == s
put_state(s, state) ==
    {q \in s : q.state_id # state.state_id} \cup {state}

\* if policy.persist_mode == "always"
MutPersistUnlessNever(policy) == policy.persist_mode # "never"
ShouldPersist(policy) == policy.persist_mode = "always"

\* LineageGraph.add / LineageGraph.link on an Optional[LineageGraph].
lineage_add(g, node_id) ==
    IF g = <<>> THEN g ELSE <<[g[1] EXCEPT !.nodes = @ \cup {node_id}]>>
lineage_link(g, parent_id, child_id) ==
    IF g = <<>> THEN g ELSE <<[g[1] EXCEPT !.edges = Append(@, <<parent_id, child_id>>)]>>

\* Lines 40-68 of materialize, after a miss: fit (an exception is swallowed),
\* transform on realization.slice, meta stamp, validate.
\*   fitted   "none" | "state" | "raised"
\*   st       the state handed to transform
\*   outcome  "ok" | "transform_raised" | "validate_raised"
\*   frame    the frame materialize would return
MutComputeFitPropagates(template, realization, fit_slice, tr) ==
    LET rid == rid_of[realization]
        f == fit(template, realization.params,
                 IF fit_slice # <<>> THEN fit_slice[1] ELSE realization.slice)
        st == IF f.raised THEN <<>> ELSE f.st
        raw == transform(template, realization.params, realization.slice, st, tr)
        frame == StampMeta(raw, rid, realization)
    IN [fitted |-> IF f.raised THEN "raised" ELSE IF st = <<>> THEN "none" ELSE "state",
        st |-> st,
        outcome |-> IF f.raised THEN "fit_raised"
                    ELSE IF tr = "raises" THEN "transform_raised"
                    ELSE IF validate_raises(frame) THEN "validate_raised" ELSE "ok",
        frame |-> IF f.raised \/ tr = "raises" \/ validate_raises(frame) THEN <<>>
                  ELSE <<frame>>]
MutComputeNoValidate(template, realization, fit_slice, tr) ==
    LET rid == rid_of[realization]
        f == fit(template, realization.params,
                 IF fit_slice # <<>> THEN fit_slice[1] ELSE realization.slice)
        st == IF f.raised THEN <<>> ELSE f.st
        raw == transform(template, realization.params, realization.slice, st, tr)
        frame == StampMeta(raw, rid, realization)
    IN [fitted |-> IF f.raised THEN "raised" ELSE IF st = <<>> THEN "none" ELSE "state",
        st |-> st,
        outcome |-> IF tr = "raises" THEN "transform_raised" ELSE "ok",
        frame |-> IF tr = "raises" THEN <<>> ELSE <<frame>>]
Compute(template, realization, fit_slice, tr) ==
    LET rid == rid_of[realization]
        f == fit(template, realization.params,
                 IF fit_slice # <<>> THEN fit_slice[1] ELSE realization.slice)
        st == IF f.raised THEN <<>> ELSE f.st
        raw == transform(template, realization.params, realization.slice, st, tr)
        frame == StampMeta(raw, rid, realization)
    IN [fitted |-> IF f.raised THEN "raised" ELSE IF st = <<>> THEN "none" ELSE "state",
        st |-> st,
        outcome |-> IF tr = "raises" THEN "transform_raised"
                    ELSE IF validate_raises(frame) THEN "validate_raised" ELSE "ok",
        frame |-> IF tr = "raises" \/ validate_raises(frame) THEN <<>> ELSE <<frame>>]

\* The lineage graph after the fit step of a miss.
LineageAfterFit(g, rid, st) ==
    IF st = <<>> THEN g
    ELSE lineage_link(lineage_add(g, st[1].state_id), rid, st[1].state_id)

\* The materialization variables before any call.
NoCall ==
    [rid |-> NoId, template |-> <<>>, persist_mode |-> "never", hit |-> FALSE,
     fitted |-> "skipped", outcome |-> "none", result |-> <<>>]

MatIdle ==
    /\ frames = {} /\ states = {} /\ lineage = <<>>
    /\ tcalls = [rid \in RealizationIds |-> 0]
    /\ builds = [rid \in RealizationIds |-> 0]
    /\ returned = {}
    /\ ncalls = 0
    /\ lastCall = NoCall

CallerIds == {"a", "b"}

IdleCaller ==
    [pc |-> "idle", template |-> <<>>, realization |-> <<>>, policy |-> <<>>,
     fit_slice |-> <<>>, frame |-> <<>>, outcome |-> "none"]

RaceIdle ==
    /\ callers = [c \in CallerIds |-> IdleCaller]
    /\ putLog = <<>>

-----------------------------------------------------------------------------
(* Calendar and grid builder (alphaforge/time/calendar.py, grids.py,       *)
(* event_grid.py)                                                          *)
(*                                                                         *)
(* Instants are counted in half-hours from 2024-03-04 00:00 UTC, a Monday. *)
(* A pandas Timestamp is a record [value, tz]: value is the instant (for a *)
(* naive Timestamp, its wall-clock reading) and tz the zone it is shown    *)
(* in.  A DatetimeIndex is a record [tz, values].                          *)

Minutes(m) == m \div 30
Hour == Minutes(60)
Day == 24 * Hour

LastDay == 28      \* dates run from 2024-03-04 (day 0) to day LastDay
MaxEvents == 3     \* an EventGrid holds at most MaxEvents timestamps

Days == 0..LastDay

CalendarZones == {"UTC", "America/New_York", "Europe/Berlin", "Asia/Tokyo"}

\* 2024-03-10 02:00 EST = 07:00 UTC: America/New_York moves to daylight time
NewYorkSpringForward == 6 * Day + 7 * Hour
\* 2024-03-31 02:00 CET = 01:00 UTC: Europe/Berlin moves to summer time
BerlinSpringForward == 27 * Day + 1 * Hour

\* the zone's offset from UTC at the instant t
utcoffset(tz, t) ==
    CASE tz = "America/New_York" ->
             IF t < NewYorkSpringForward THEN 0 - 5 * Hour ELSE 0 - 4 * Hour
      [] tz = "Europe/Berlin" ->
             IF t < BerlinSpringForward THEN 1 * Hour ELSE 2 * Hour
      [] tz = "Asia/Tokyo" -> 9 * Hour
      [] OTHER -> 0

ZoneOffsets(tz) ==
    CASE tz = "America/New_York" -> {0 - 5 * Hour, 0 - 4 * Hour}
      [] tz = "Europe/Berlin" -> {1 * Hour, 2 * Hour}
      [] tz = "Asia/Tokyo" -> {9 * Hour}
      [] OTHER -> {0}

\* the wall-clock reading of a Timestamp in its own zone
wall(ts) == IF ts.tz = "naive" THEN ts.value ELSE ts.value + utcoffset(ts.tz, ts.value)

\* the instant at which the zone's clocks read w (local midnights are never
\* skipped or repeated in these zones)
localize(tz, w) ==
    LET o == CHOOSE o \in ZoneOffsets(tz) : utcoffset(tz, w - o) = o
    IN  [value |-> w - o, tz |-> tz]

\* pd.Timestamp(date-like) for a naive date and for a UTC session label
NaiveDate(d) == [value |-> d * Day, tz |-> "naive"]
UtcMidnight(d) == [value |-> d * Day, tz |-> "UTC"]

tz_localize(ts, tz) == [value |-> ts.value, tz |-> tz]
tz_convert(ts, tz) == [value |-> ts.value, tz |-> tz]
normalize(ts) == localize(ts.tz, (wall(ts) \div Day) * Day)
Timedelta(ts, delta) == [value |-> ts.value + delta, tz |-> ts.tz]
date(ts) == wall(ts) \div Day
time_of_day(ts) == wall(ts) % Day

OpenOffset == 9 * Hour + Minutes(30)
CloseOffset == 16 * Hour

weekday(d) == d % 7
IsBusinessDay(d) == weekday(d) < 5

\* pd.bdate_range(start, end): the business days from start to end, ascending
RECURSIVE bdate_range(_, _)
bdate_range(start, end) ==
    IF start > end THEN <<>>
    ELSE (IF IsBusinessDay(start) THEN <<start>> ELSE <<>>) \o bdate_range(start + 1, end)

TradingCalendar(name, tz) == [name |-> name, tz |-> tz]

sessions(self, start, end) ==
    LET dates == bdate_range(start, end)
    IN  [i \in 1..Len(dates) |-> UtcMidnight(dates[i])]

session_open_utc(self, session_label) ==
    LET ts == IF session_label.tz = "naive" THEN tz_localize(session_label, "UTC")
              ELSE session_label
        local == normalize(tz_convert(ts, self.tz))
        open_local == Timedelta(local, OpenOffset)
    IN  tz_convert(open_local, "UTC")

session_close_utc(self, session_label) ==
    LET ts == IF session_label.tz = "naive" THEN tz_localize(session_label, "UTC")
              ELSE session_label
        local == normalize(tz_convert(ts, self.tz))
        close_local == Timedelta(local, CloseOffset)
    IN  tz_convert(close_local, "UTC")

\* frequency strings and their step
Freqs == {"30min", "60min", "390min"}
FreqStep(freq) ==
    CASE freq = "30min" -> Minutes(30)
      [] freq = "60min" -> Minutes(60)
      [] freq = "390min" -> Minutes(390)

EmptyUtcIndex == [tz |-> "UTC", values |-> <<>>]    \* dtype datetime64[ns, UTC]
EmptyIndex == [tz |-> "naive", values |-> <<>>]     \* pd.DatetimeIndex([])

\* pd.date_range(start, end, freq, inclusive="right"): the steps after start
\* up to and including end
MutDateRangeBoth(start, end, freq) ==
    LET n == (end.value - start.value) \div FreqStep(freq)
    IN  [tz |-> start.tz, values |-> [k \in 1..(n + 1) |-> start.value + (k - 1) * FreqStep(freq)]]
date_range(start, end, freq) ==
    LET n == (end.value - start.value) \div FreqStep(freq)
    IN  [tz |-> start.tz, values |-> [k \in 1..n |-> start.value + k * FreqStep(freq)]]

index_tz_convert(idx, tz) == [tz |-> tz, values |-> idx.values]
index_tz_localize(idx, tz) == [tz |-> tz, values |-> idx.values]

RECURSIVE SelectValues(_, _, _)
SelectValues(values, lo, hi) ==
    IF values = <<>> THEN <<>>
    ELSE (IF lo <= Head(values) /\ Head(values) <= hi THEN <<Head(values)>> ELSE <<>>)
         \o SelectValues(Tail(values), lo, hi)

\* rng[(rng >= s) & (rng <= e)]
clip(idx, s, e) == [tz |-> idx.tz, values |-> SelectValues(idx.values, s.value, e.value)]

sort_values(idx) == [tz |-> idx.tz, values |-> SortSeq(idx.values, LAMBDA a, b : a < b)]

RECURSIVE Dedupe(_)
Dedupe(values) ==
    IF values = <<>> THEN <<>>
    ELSE <<Head(values)>> \o Dedupe(SelectSeq(Tail(values), LAMBDA v : v # Head(values)))

unique(idx) == [tz |-> idx.tz, values |-> Dedupe(idx.values)]

RECURSIVE Concat(_)
Concat(pieces) ==
    IF pieces = <<>> THEN <<>> ELSE Head(pieces).values \o Concat(Tail(pieces))

\* one pass of the loop over sessions: the piece appended for sess, if any
SessionPiece(self, sess, s, e, freq) ==
    LET open_utc == session_open_utc(self, sess)
        close_utc == session_close_utc(self, sess)
        open_local == tz_convert(open_utc, self.tz)
        close_local == tz_convert(close_utc, self.tz)
        rng_local == date_range(open_local, close_local, freq)
    IN  IF Len(rng_local.values) = 0 THEN <<>>
        ELSE <<clip(index_tz_convert(rng_local, "UTC"), s, e)>>

RECURSIVE SessionPieces(_, _, _, _, _)
SessionPieces(self, sess_list, s, e, freq) ==
    IF sess_list = <<>> THEN <<>>
    ELSE SessionPiece(self, Head(sess_list), s, e, freq)
         \o SessionPieces(self, Tail(sess_list), s, e, freq)

trading_minutes_utc(self, start_utc, end_utc, freq) ==
    LET s == IF start_utc.tz = "naive" THEN tz_localize(start_utc, "UTC") ELSE start_utc
        e == IF end_utc.tz = "naive" THEN tz_localize(end_utc, "UTC") ELSE end_utc
        pieces == SessionPieces(self, sessions(self, date(s), date(e)), s, e, freq)
    IN  IF pieces # <<>>
        THEN IF Len(pieces) = 1 THEN pieces[1]
             ELSE sort_values(unique(sort_values([tz |-> "UTC", values |-> Concat(pieces)])))
        ELSE EmptyUtcIndex

\* grid tokens and str.lower()
GridTokens == {"B", "sessions", "daily", "Sessions", "30min", "60min", "390min", "weekly"}
lower(grid) ==
    CASE grid = "B" -> "b"
      [] grid = "Sessions" -> "sessions"
      [] OTHER -> grid
SessionTokens == {"b", "sessions", "daily"}

\* [cal.session_close_utc(d) for d in dates]
RECURSIVE Closes(_, _)
Closes(cal_, dates) ==
    IF dates = <<>> THEN <<>>
    ELSE <<session_close_utc(cal_, NaiveDate(Head(dates))).value>> \o Closes(cal_, Tail(dates))

\* pd.DatetimeIndex(list of UTC Timestamps); an empty list gives a naive index
DatetimeIndex(values) ==
    IF values = <<>> THEN EmptyIndex ELSE [tz |-> "UTC", values |-> values]

Raised(error) == [raised |-> error, tz |-> "None", values |-> <<>>]
Returned(idx) == [raised |-> "", tz |-> idx.tz, values |-> idx.values]

build_grid_utc(cal_, start_utc, end_utc, grid) ==
    LET s == IF start_utc.tz = "naive" THEN tz_localize(start_utc, "UTC") ELSE start_utc
        e == IF end_utc.tz = "naive" THEN tz_localize(end_utc, "UTC") ELSE end_utc
        g == lower(grid)
    IN  IF g \in SessionTokens
        THEN Returned(sort_values(DatetimeIndex(Closes(cal_, bdate_range(date(s), date(e))))))
        ELSE IF g \in Freqs
        THEN Returned(trading_minutes_utc(cal_, s, e, g))
        ELSE Raised("ValueError")

\* _ensure_utc
ensure_utc(dtidx) ==
    IF dtidx.tz = "naive" THEN index_tz_localize(dtidx, "UTC")
    ELSE index_tz_convert(dtidx, "UTC")

\* normalize_grid; start_utc and end_utc are <<>> (None) or <<Timestamp>>
normalize_grid(grid, start_utc, end_utc) ==
    LET ts0 == unique(sort_values(ensure_utc(grid)))
        first(t) == ensure_utc([tz |-> t.tz, values |-> <<t.value>>]).values[1]
        lo == IF start_utc = <<>> THEN ts0
              ELSE [tz |-> ts0.tz,
                    values |-> SelectSeq(ts0.values, LAMBDA v : v >= first(start_utc[1]))]
        hi == IF end_utc = <<>> THEN lo
              ELSE [tz |-> lo.tz,
                    values |-> SelectSeq(lo.values, LAMBDA v : v <= first(end_utc[1]))]
    IN  hi

\* the calendar object and the last call made on it (observation only)
NoTimestamp == [value |-> 0, tz |-> "None"]
NoResult == [raised |-> "", tz |-> "None", values |-> <<>>]
NoCalCall ==
    [op |-> "init", label |-> NoTimestamp, start |-> NoTimestamp, end |-> NoTimestamp,
     token |-> "", events |-> EmptyIndex, lo |-> <<>>, hi |-> <<>>,
     ts |-> NoTimestamp, result |-> NoResult]

CalIdle ==
    /\ cal = TradingCalendar("XNYS", "UTC")
    /\ calCall = NoCalCall

-----------------------------------------------------------------------------
(* Alignment engine (alphaforge/time/align.py)                             *)
(*                                                                         *)
(* A PanelFrame is a set of rows [ts, entity, v]: ts an instant, v the     *)
(* value of every field, NaN or <<number>>.  A frame indexed by the grid   *)
(* is a sequence with one element per grid position.                       *)

MaxGrid == 3       \* a grid holds at most MaxGrid timestamps
MaxRaw == 2        \* the first entity has at most MaxRaw raw rows

NaN == <<>>
isna(v) == v = NaN
notna(v) == v # NaN

Fields == {"x", "y"}
EntityRank(ent) == IF ent = "A" THEN 1 ELSE 2

AVAILABLE == "available"
NO_UPDATE_EXPECTED == "no_update_expected"
NOT_YET_RELEASED == "not_yet_released"
TEMPORARY_OUTAGE == "temporary_outage"
DISCONTINUED == "discontinued"
MISSING_UNKNOWN == "missing_unknown"

\* _ts_utc
ts_utc(idx) ==
    IF idx.tz = "naive" THEN index_tz_localize(idx, "UTC")
    ELSE index_tz_convert(idx, "UTC")

\* DatetimeIndex.normalize() of a UTC index: midnight of each timestamp's date
index_normalize(idx) ==
    [tz |-> idx.tz, values |-> [i \in 1..Len(idx.values) |-> (idx.values[i] \div Day) * Day]]

\* str.upper() of the native frequencies a schema carries
upper(f) ==
    CASE f = "d" -> "D"
      [] f = "m" -> "M"
      [] OTHER -> f

\* {"B": 1, "D": 1, "W": 7, "M": 30, "Q": 90}.get(f)
CadenceOf(f) ==
    CASE f = "B" -> <<1>>
      [] f = "D" -> <<1>>
      [] f = "W" -> <<7>>
      [] f = "M" -> <<30>>
      [] f = "Q" -> <<90>>
      [] OTHER -> <<>>

\* _expected_days: <<>> is None
MutExpectedDaysNativeOnly(schema) ==
    CadenceOf(upper(IF schema.native_freq = <<>> THEN "" ELSE schema.native_freq[1]))
expected_days(schema) ==
    IF schema.expected_cadence_days # <<>> THEN schema.expected_cadence_days
    ELSE CadenceOf(upper(IF schema.native_freq = <<>> THEN "" ELSE schema.native_freq[1]))

\* the entities of a panel, and df.xs(ent).sort_index() after the timestamps
\* were normalized: rows [d, ts, v] in ascending order of d
PanelEntities(panel) == {r.entity : r \in panel}

RECURSIVE SortRows(_)
SortRows(rows) ==
    IF rows = {} THEN <<>>
    ELSE LET first == CHOOSE r \in rows : \A q \in rows : r.ts <= q.ts
         IN  <<first>> \o SortRows(rows \ {first})

xs(panel, ent) ==
    SortRows({[d |-> index_normalize(ts_utc([tz |-> "UTC", values |-> <<r.ts>>])).values[1],
               ts |-> r.ts, v |-> r.v] : r \in {q \in panel : q.entity = ent}})

HasDuplicates(values) ==
    \E i \in 1..Len(values) : \E j \in 1..Len(values) : i # j /\ values[i] = values[j]

AllNaN == [f \in Fields |-> NaN]

\* sub.reindex(gidx): the row of sub labelled gidx[i], NaN where there is none;
\* pandas refuses to reindex from an index with duplicate labels unless the
\* target equals it
reindex_raises(sub, gidx) ==
    /\ [i \in 1..Len(sub) |-> sub[i].d] # gidx.values
    /\ HasDuplicates([i \in 1..Len(sub) |-> sub[i].d])

reindex(sub, gidx) ==
    IF [i \in 1..Len(sub) |-> sub[i].d] = gidx.values
    THEN [i \in 1..Len(sub) |-> sub[i].v]
    ELSE [i \in 1..Len(gidx.values) |->
            IF \E k \in 1..Len(sub) : sub[k].d = gidx.values[i]
            THEN sub[CHOOSE k \in 1..Len(sub) : sub[k].d = gidx.values[i]].v
            ELSE AllNaN]

\* sub.index[sub.notna().any(axis=1)]
obs_dates(sub) == {sub[k].d : k \in {i \in 1..Len(sub) : \E f \in Fields : notna(sub[i].v[f])}}

\* obs_on_grid after .loc[obs_dates.intersection(gidx)] = True
obs_on_grid(sub, gidx) == [i \in 1..Len(gidx.values) |-> gidx.values[i] \in obs_dates(sub)]

\* base.isna().all(axis=1)
all_nan(base) == [i \in 1..Len(base) |-> \A f \in Fields : isna(base[i][f])]

\* the availability frame: one state per grid position, written to every field
Availability(sub, gidx, base, exp) ==
    LET obs == obs_on_grid(sub, gidx)
        nan == all_nan(base)
        any_obs == \E i \in 1..Len(obs) : obs[i]
        \* labels of all_nan.loc[obs_on_grid[obs_on_grid].index]
        nan_on_obs == {gidx.values[i] : i \in {k \in 1..Len(obs) : obs[k]}}
        structural(i) == IF exp # <<>> /\ exp[1] > 1 /\ ~obs[i]
                         THEN NO_UPDATE_EXPECTED ELSE AVAILABLE
        state(i) == IF exp = <<>> \/ exp[1] <= 1
                    THEN IF nan[i] THEN MISSING_UNKNOWN ELSE structural(i)
                    ELSE IF any_obs /\ gidx.values[i] \in nan_on_obs
                         THEN TEMPORARY_OUTAGE ELSE structural(i)
    IN  [i \in 1..Len(gidx.values) |-> [f \in Fields |-> state(i)]]

\* Series.ffill(limit): the last non-null value above, at most limit rows up
ffill(col, limit) ==
    [i \in 1..Len(col) |->
        IF notna(col[i]) THEN col[i]
        ELSE LET above == {j \in 1..(i - 1) : notna(col[j])}
             IN  IF above = {} THEN NaN
                 ELSE LET j == CHOOSE j \in above : \A k \in above : k <= j
                      IN  IF limit = <<>> \/ i - j <= limit[1] THEN col[j] ELSE NaN]

\* Series.interpolate(limit_direction="both"): linear in the row position
\* between the neighbouring values, the nearest value outside them
interpolate(col) ==
    [i \in 1..Len(col) |->
        IF notna(col[i]) THEN col[i]
        ELSE LET above == {j \in 1..(i - 1) : notna(col[j])}
                 below == {j \in (i + 1)..Len(col) : notna(col[j])}
                 a == CHOOSE j \in above : \A k \in above : k <= j
                 b == CHOOSE j \in below : \A k \in below : j <= k
             IN  IF above = {} /\ below = {} THEN NaN
                 ELSE IF above = {} THEN col[b]
                 ELSE IF below = {} THEN col[a]
                 ELSE <<col[a][1] + ((col[b][1] - col[a][1]) * (i - a)) \div (b - a)>>]

Column(frame, f) == [i \in 1..Len(frame) |-> frame[i][f]]

fill_raises(align) == align.method \notin {"none", "ffill", "step_hold", "interp"}

fill(base, align) ==
    LET filled(f) ==
            IF align.method = "none" THEN Column(base, f)
            ELSE IF align.method \in {"ffill", "step_hold"}
            THEN ffill(Column(base, f), align.max_fill_gap_days)
            ELSE interpolate(Column(base, f))
    IN  [i \in 1..Len(base) |-> [f \in Fields |-> filled(f)[i]]]

\* one pass of the loop over entities: the rows (ts, ent) of the three frames
EntityRows(panel, ent, gidx, exp, align) ==
    LET sub == xs(panel, ent)
        base == reindex(sub, gidx)
        obs == obs_on_grid(sub, gidx)
        availability == Availability(sub, gidx, base, exp)
        val == fill(base, align)
    IN  {[ts |-> gidx.values[i], entity |-> ent, pos |-> i, value |-> val[i],
          observed |-> [f \in Fields |-> obs[i]],
          availability |-> availability[i]] : i \in 1..Len(gidx.values)}

\* pd.concat(...).sort_index(): rows in (ts, entity) order
RECURSIVE sort_index(_)
sort_index(rows) ==
    LET before(r, q) ==
            \/ r.ts < q.ts
            \/ r.ts = q.ts /\ EntityRank(r.entity) < EntityRank(q.entity)
            \/ r.ts = q.ts /\ r.entity = q.entity /\ r.pos <= q.pos
    IN  IF rows = {} THEN <<>>
        ELSE LET first == CHOOSE r \in rows : \A q \in rows : before(r, q)
             IN  <<first>> \o sort_index(rows \ {first})

AlignRaised(error) == [raised |-> error, rows |-> <<>>]
AlignedPanel(rows) == [raised |-> "", rows |-> rows]

align_panel(panel, schema, grid, align) ==
    LET gidx == ts_utc(grid)
        entities == PanelEntities(panel)
        exp == expected_days(schema)
    IN  IF \E ent \in entities : reindex_raises(xs(panel, ent), gidx)
        THEN AlignRaised("ValueError")
        ELSE IF entities # {} /\ fill_raises(align)
        THEN AlignRaised("ValueError")
        ELSE IF entities = {}
        THEN AlignRaised("ValueError")
        ELSE AlignedPanel(sort_index(UNION {EntityRows(panel, ent, gidx, exp, align) :
                                            ent \in entities}))

NoAlignCall ==
    [op |-> "init", panel |-> {}, schema |-> [native_freq |-> <<>>, expected_cadence_days |-> <<>>],
     grid |-> EmptyIndex, align |-> [method |-> "ffill", max_fill_gap_days |-> <<>>],
     result |-> AlignRaised("")]

AlignIdle == alignCall = NoAlignCall

-----------------------------------------------------------------------------
(* Reference periods (alphaforge/time/ref_period.py) and reference entity  *)
(* ids (alphaforge/pit/ref_entity.py)                                      *)
(*                                                                         *)
(* A calendar timestamp is a record [year, month, day, hour, tz]; a string *)
(* is a sequence of one-character strings; a call returns                  *)
(* [raised, value], raised = "" when it returned value.                    *)

RefFreq == {"A", "Q", "M"}

Timestamp(year, month, day, hour, tz) ==
    [year |-> year, month |-> month, day |-> day, hour |-> hour, tz |-> tz]

\* the proleptic Gregorian calendar pandas uses
IsLeap(year) == (year % 4 = 0 /\ year % 100 # 0) \/ year % 400 = 0
DaysInMonth(year, month) ==
    IF month = 2 THEN (IF IsLeap(year) THEN 29 ELSE 28)
    ELSE IF month \in {4, 6, 9, 11} THEN 30 ELSE 31

\* ts + MonthEnd(0): the last day of ts's month
MonthEnd0(ts) == [ts EXCEPT !.day = DaysInMonth(ts.year, ts.month)]

\* Timestamp.floor("D")
floor_D(ts) == [ts EXCEPT !.hour = 0]

\* the hours a zone's clocks are ahead of UTC
RefUtcOffset(tz) == IF tz = "Asia/Tokyo" THEN 9 ELSE 0

\* ts.tz_convert("UTC") of an aware timestamp: the same instant read in UTC
ref_tz_convert_utc(ts) ==
    LET h == ts.hour - RefUtcOffset(ts.tz)
    IN  IF h >= 0 THEN [ts EXCEPT !.hour = h, !.tz = "UTC"]
        ELSE IF ts.day > 1
        THEN [ts EXCEPT !.hour = h + 24, !.day = @ - 1, !.tz = "UTC"]
        ELSE IF ts.month > 1
        THEN [ts EXCEPT !.hour = h + 24, !.month = @ - 1,
                        !.day = DaysInMonth(ts.year, ts.month - 1), !.tz = "UTC"]
        ELSE [ts EXCEPT !.hour = h + 24, !.year = @ - 1, !.month = 12, !.day = 31,
                        !.tz = "UTC"]

\* _ts_utc_midnight
ts_utc_midnight(value) ==
    floor_D(IF value.tz = "naive" THEN [value EXCEPT !.tz = "UTC"]
            ELSE ref_tz_convert_utc(value))

RefRaised(error) == [raised |-> error, value |-> <<>>]
RefReturned(value) == [raised |-> "", value |-> value]

RefPeriod(freq, year, period) == [freq |-> freq, year |-> year, period |-> period]

\* RefPeriod.end_obs_date; pd.Timestamp(year, month, 1) raises ValueError for
\* a month outside 1..12
end_obs_date(self) ==
    IF self.freq = "A" THEN RefReturned(floor_D(Timestamp(self.year, 12, 31, 0, "UTC")))
    ELSE IF self.freq = "Q"
    THEN IF self.period * 3 \notin 1..12 THEN RefRaised("ValueError")
         ELSE RefReturned(floor_D(MonthEnd0(Timestamp(self.year, self.period * 3, 1, 0, "UTC"))))
    ELSE IF self.freq = "M"
    THEN IF self.period \notin 1..12 THEN RefRaised("ValueError")
         ELSE RefReturned(floor_D(MonthEnd0(Timestamp(self.year, self.period, 1, 0, "UTC"))))
    ELSE RefRaised("ValueError")

\* RefPeriod.from_obs_date_end
MutFromObsDateEndQuarter(ts, freq) ==
    LET obs_ts == ts_utc_midnight(ts)
        period == IF freq = "A" THEN 1
                  ELSE IF freq = "Q" THEN (obs_ts.month \div 3) + 1
                  ELSE obs_ts.month
        candidate == RefPeriod(freq, obs_ts.year, period)
    IN  IF freq \notin RefFreq THEN RefRaised("ValueError")
        ELSE IF end_obs_date(candidate) # RefReturned(obs_ts) THEN RefRaised("ValueError")
        ELSE RefReturned(candidate)
from_obs_date_end(ts, freq) ==
    LET obs_ts == ts_utc_midnight(ts)
        period == IF freq = "A" THEN 1
                  ELSE IF freq = "Q" THEN ((obs_ts.month - 1) \div 3) + 1
                  ELSE obs_ts.month
        candidate == RefPeriod(freq, obs_ts.year, period)
    IN  IF freq \notin RefFreq THEN RefRaised("ValueError")
        ELSE IF end_obs_date(candidate) # RefReturned(obs_ts) THEN RefRaised("ValueError")
        ELSE RefReturned(candidate)

\* decimal digits: str(int) and int(str)
DigitChars == <<"0", "1", "2", "3", "4", "5", "6", "7", "8", "9">>
DigitSet == {DigitChars[i] : i \in 1..10}
DigitValue(c) == (CHOOSE i \in 1..10 : DigitChars[i] = c) - 1

RECURSIVE Decimal(_)
Decimal(n) == IF n < 10 THEN <<DigitChars[n + 1]>>
              ELSE Decimal(n \div 10) \o <<DigitChars[(n % 10) + 1]>>

RECURSIVE ZeroPad(_, _)
ZeroPad(text, width) == IF Len(text) >= width THEN text ELSE ZeroPad(<<"0">> \o text, width)

RECURSIVE int(_)
int(text) == IF Len(text) = 0 THEN 0
             ELSE 10 * int(SubSeq(text, 1, Len(text) - 1)) + DigitValue(text[Len(text)])

IsDigits(text) == \A i \in 1..Len(text) : text[i] \in DigitSet

\* RefPeriod.to_key
to_key(self) ==
    IF self.freq = "A" THEN ZeroPad(Decimal(self.year), 4)
    ELSE IF self.freq = "Q" THEN ZeroPad(Decimal(self.year), 4) \o <<"Q">> \o Decimal(self.period)
    ELSE ZeroPad(Decimal(self.year), 4) \o <<"-">> \o ZeroPad(Decimal(self.period), 2)

\* str.strip()
RECURSIVE strip(_)
strip(text) ==
    IF Len(text) = 0 THEN text
    ELSE IF text[1] = " " THEN strip(Tail(text))
    ELSE IF text[Len(text)] = " " THEN strip(SubSeq(text, 1, Len(text) - 1))
    ELSE text

\* RefPeriod.parse: the four patterns in the order the code tries them
parse(s) ==
    LET text == strip(s)
        n == Len(text)
        year == int(SubSeq(text, 1, 4))
        isQ == /\ n = 6 /\ IsDigits(SubSeq(text, 1, 4))
               /\ text[5] \in {"Q", "q"} /\ text[6] \in {"1", "2", "3", "4"}
        isDate == /\ n = 10 /\ IsDigits(SubSeq(text, 1, 4)) /\ text[5] = "-"
                  /\ IsDigits(SubSeq(text, 6, 7)) /\ text[8] = "-"
                  /\ IsDigits(SubSeq(text, 9, 10))
        isMonth == /\ n = 7 /\ IsDigits(SubSeq(text, 1, 4)) /\ text[5] \in {"-", "/"}
                   /\ IsDigits(SubSeq(text, 6, 7))
        isYear == n = 4 /\ IsDigits(text)
    IN  IF n = 0 THEN RefRaised("ValueError")
        ELSE IF isQ THEN RefReturned(RefPeriod("Q", year, DigitValue(text[6])))
        ELSE IF isDate
        THEN LET month == int(SubSeq(text, 6, 7))
                 day == int(SubSeq(text, 9, 10))
             IN  \* pd.Timestamp(text) raises for a date that does not exist
                 IF month \notin 1..12 THEN RefRaised("ValueError")
                 ELSE IF day \notin 1..DaysInMonth(year, month) THEN RefRaised("ValueError")
                 ELSE IF day # DaysInMonth(year, month) THEN RefRaised("ValueError")
                 ELSE RefReturned(RefPeriod("M", year, month))
        ELSE IF isMonth
        THEN IF int(SubSeq(text, 6, 7)) \notin 1..12 THEN RefRaised("ValueError")
             ELSE RefReturned(RefPeriod("M", year, int(SubSeq(text, 6, 7))))
        ELSE IF isYear THEN RefReturned(RefPeriod("A", year, 1))
        ELSE RefRaised("ValueError")

\* make_ref_entity_id
make_ref_entity_id(series_key, ref) ==
    IF Len(series_key) = 0 THEN RefRaised("ValueError")
    ELSE RefReturned(series_key \o <<"|">> \o to_key(ref))

\* entity_id.split("|", 1): cut at the first "|"
split_once(text) ==
    IF \E i \in 1..Len(text) : text[i] = "|"
    THEN LET i == CHOOSE i \in 1..Len(text) :
                      text[i] = "|" /\ \A j \in 1..(i - 1) : text[j] # "|"
         IN  <<SubSeq(text, 1, i - 1), SubSeq(text, i + 1, Len(text))>>
    ELSE <<text>>

\* parse_ref_entity_id
parse_ref_entity_id(entity_id) ==
    LET parts == split_once(entity_id)
    IN  IF Len(entity_id) = 0 THEN RefRaised("ValueError")
        ELSE IF Len(parts) # 2 \/ Len(parts[1]) = 0 \/ Len(parts[2]) = 0
        THEN RefRaised("ValueError")
        ELSE IF parse(parts[2]).raised # "" THEN RefRaised("ValueError")
        ELSE RefReturned(<<parts[1], parse(parts[2]).value>>)

NoRefCall ==
    [op |-> "init", ref |-> RefPeriod("A", 2024, 1), ts |-> Timestamp(2024, 1, 1, 0, "UTC"),
     freq |-> "A", series_key |-> <<>>, text |-> <<>>, result |-> RefRaised("")]

RefIdle == refCall = NoRefCall


-----------------------------------------------------------------------------
(* Dataset assembly (alphaforge/features/dataset_builder.py)               *)
(*                                                                         *)
(* A frame is a set of rows [ts, entity, v], ts a UTC instant and v NaN or *)
(* <<number>>; the X and y of a DatasetArtifact are sequences of rows in   *)
(* the order of full_index, X rows carrying one value per feature request. *)

\* the two templates of test_feature_template_asof_respected.py:
\*   fetch_panel    transform reads through ctx.fetch_panel, which slices
\*                  the source rows to [slice.start, slice.end] and to
\*                  ts <= slice.asof (data/context.py)
\*   source_fetch   transform reads the source directly and passes asof=None:
\*                  every source row comes back
TemplateKinds == {"fetch_panel", "source_fetch"}

template_transform(kind, source, slice) ==
    IF kind = "fetch_panel"
    THEN {r \in source : /\ r.entity \in {slice.entities[i] : i \in 1..Len(slice.entities)}
                         /\ slice.start.value <= r.ts /\ r.ts <= slice.end.value
                         /\ (slice.asof = <<>> \/ r.ts <= slice.asof[1].value)}
    ELSE source

\* _apply_override with an override that sets no lookback and no grid
apply_override(base, override) ==
    IF override = <<>> THEN base
    ELSE [base EXCEPT !.asof = IF override[1].asof # <<>> THEN override[1].asof ELSE base.asof]

\* the leak check of build_dataset: rows after the slice's asof
leak_detected(X, s) == s.asof # <<>> /\ \E r \in X : r.ts > s.asof[1].value

\* the session-label heuristic: when every timestamp of the frame is at
\* midnight, each is replaced by the close of the session it labels
labels_to_closes(cal_, X) ==
    IF X # {} /\ \A r \in X : time_of_day([value |-> r.ts, tz |-> "UTC"]) = 0
    THEN {[r EXCEPT !.ts = session_close_utc(cal_, [value |-> r.ts, tz |-> "UTC"]).value] : r \in X}
    ELSE X

\* X.reindex(full_index) of a one-column frame: the value labelled
\* full_index[i], NaN where the frame has no such row
frame_reindex(X, full_index) ==
    [i \in 1..Len(full_index) |->
        IF \E r \in X : r.ts = full_index[i][1] /\ r.entity = full_index[i][2]
        THEN (CHOOSE r \in X : r.ts = full_index[i][1] /\ r.entity = full_index[i][2]).v
        ELSE NaN]

\* pd.MultiIndex.from_product([grid_idx, entities])
RECURSIVE from_product(_, _)
from_product(values, entities) ==
    IF values = <<>> THEN <<>>
    ELSE [i \in 1..Len(entities) |-> <<Head(values), entities[i]>>]
         \o from_product(Tail(values), entities)

DatasetRaised(error) == [raised |-> error, X |-> <<>>, y |-> <<>>, leak |-> FALSE]
DatasetArtifact(X, y, leak) == [raised |-> "", X |-> X, y |-> y, leak |-> leak]

\* build_dataset(ctx, spec) with ctx.calendars = {cal_.name: cal_} and source
\* the rows the data source holds
build_dataset(cal_, spec, source) ==
    LET entities == spec.universe.entities
        base_slice == [start |-> spec.time.start, end |-> spec.time.end,
                       entities |-> entities, asof |-> spec.time.asof, grid |-> spec.time.grid]
        grid_idx == build_grid_utc(cal_, spec.time.start, spec.time.end, spec.time.grid)
        full_index == from_product(grid_idx.values, entities)
        \* 1) features: override, transform, leak check, labels to closes, reindex
        fslice(k) == apply_override(base_slice, spec.features[k].slice_override)
        fraw(k) == template_transform(spec.features[k].template, source, fslice(k))
        fcol(k) == frame_reindex(labels_to_closes(cal_, fraw(k)), full_index)
        \* 2) target: a FeatureFrame of one column, reindexed
        target_slice == apply_override(base_slice, spec.target.slice_override)
        ycol == frame_reindex(template_transform(spec.target.template, source, target_slice),
                              full_index)
        Xrow(i) == [ts |-> full_index[i][1], entity |-> full_index[i][2],
                    v |-> [k \in 1..Len(spec.features) |-> fcol(k)[i]]]
        yrow(i) == [ts |-> full_index[i][1], entity |-> full_index[i][2], v |-> ycol[i]]
        \* 4) mask = X.notna().all(axis=1) & y.notna()
        keep(i) == \/ spec.missingness.final_row_policy = "keep"
                   \/ /\ \A k \in 1..Len(spec.features) : notna(fcol(k)[i])
                      /\ notna(ycol[i])
        kept == SelectSeq([i \in 1..Len(full_index) |-> i], keep)
        leak == \E k \in 1..Len(spec.features) : leak_detected(fraw(k), fslice(k))
    IN  IF entities = <<>> THEN DatasetRaised("ValueError")
        ELSE IF spec.time.calendar # cal_.name THEN DatasetRaised("KeyError")
        ELSE IF grid_idx.raised # "" THEN DatasetRaised(grid_idx.raised)
        ELSE IF Len(grid_idx.values) = 0 THEN DatasetRaised("ValueError")
        ELSE IF spec.missingness.final_row_policy \notin {"drop_if_any_nan", "keep"}
        THEN DatasetRaised("ValueError")
        ELSE DatasetArtifact([j \in 1..Len(kept) |-> Xrow(kept[j])],
                             [j \in 1..Len(kept) |-> yrow(kept[j])], leak)

NoDatasetCall ==
    [op |-> "init",
     spec |-> [universe |-> [entities |-> <<>>],
               time |-> [start |-> NoTimestamp, end |-> NoTimestamp, calendar |-> "",
                         grid |-> "", asof |-> <<>>],
               target |-> [template |-> "fetch_panel", slice_override |-> <<>>],
               features |-> <<>>,
               missingness |-> [final_row_policy |-> "drop_if_any_nan"]],
     source |-> {}, result |-> DatasetRaised("")]

DatasetIdle == dsCall = NoDatasetCall


-----------------------------------------------------------------------------
(* align_panel with all its arguments (alphaforge/time/align.py)           *)

\* AlignSpec(target_grid, method, respect_asof, ..., max_fill_gap_days) as
\* align_panel is handed it
AlignSpec(method, respect_asof, max_fill_gap_days) ==
    [method |-> method, respect_asof |-> respect_asof,
     max_fill_gap_days |-> max_fill_gap_days]

\* align_panel(panel, schema, grid, align, asof): the body reads align.method
\* and align.max_fill_gap_days; asof and align.respect_asof are never read
MutAlignPanelClipsToAsof(panel, schema, grid, align, asof) ==
    align_panel(IF align.respect_asof /\ asof # <<>>
                THEN {r \in panel : r.ts <= asof[1].value} ELSE panel,
                schema, grid,
                [method |-> align.method, max_fill_gap_days |-> align.max_fill_gap_days])
align_panel_asof(panel, schema, grid, align, asof) ==
    align_panel(panel, schema, grid,
                [method |-> align.method, max_fill_gap_days |-> align.max_fill_gap_days])

NoPairCall ==
    [op |-> "init", panelA |-> {}, panelB |-> {},
     schema |-> [native_freq |-> <<>>, expected_cadence_days |-> <<>>],
     grid |-> EmptyIndex,
     alignA |-> AlignSpec("ffill", TRUE, <<>>), alignB |-> AlignSpec("ffill", TRUE, <<>>),
     asofA |-> <<>>, asofB |-> <<>>,
     resultA |-> AlignRaised(""), resultB |-> AlignRaised("")]

PairIdle == alignPair = NoPairCall


-----------------------------------------------------------------------------
(* upsert_pit_observations over all columns of pit_observations            *)
(* (alphaforge/pit/accessor.py)                                            *)
(*                                                                         *)
(* An incoming frame is [columns, rows]: rows a sequence of records over   *)
(* the frame's columns.  A null is None in a TIMESTAMP column and NaN in   *)
(* the others; a non-null value or text v is <<v>>.                        *)

PitColumns ==
    <<"series_key", "obs_date", "asof_utc", "value", "release_time_utc",
      "revision_id", "source", "meta_json", "ingested_utc">>
PitColumnSet == {PitColumns[i] : i \in 1..Len(PitColumns)}
DatetimeColumns == {"obs_date", "asof_utc", "release_time_utc", "ingested_utc"}

\* pd.NA as the engine stores it in column col
NullOf(col) == IF col \in DatetimeColumns THEN None ELSE NaN

\* _normalize_datetime_columns: the frame's datetime columns to naive UTC
normalize_datetime_columns(row) ==
    [col \in DOMAIN row |-> IF col \in DatetimeColumns THEN to_utc_naive(row[col])
                            ELSE row[col]]

\* lines 109-123: ingested_utc, when the frame has no such column, is the
\* time of the call; every other column the frame lacks is pd.NA
fill_columns(row, now) ==
    [col \in PitColumnSet |->
        IF col \in DOMAIN row THEN row[col]
        ELSE IF col = "ingested_utc" THEN to_utc_naive(now)
        ELSE NullOf(col)]

\* the rows of pit_incoming
pit_incoming(df, now) ==
    [i \in 1..Len(df.rows) |-> fill_columns(normalize_datetime_columns(df.rows[i]), now)]

\* Of several incoming rows with one key, the last one in the frame.
LastOfKey(rows) ==
    {rows[i] : i \in {k \in 1..Len(rows) :
        \A j \in 1..Len(rows) : j > k => NaturalKey(rows[j]) # NaturalKey(rows[k])}}

\* ingested_utc TIMESTAMP NOT NULL
not_null_violated(rows) == \E i \in 1..Len(rows) : rows[i]["ingested_utc"] = None

NoFullOp == [op |-> "init", outcome |-> "ok", columns |-> {}, incoming |-> {}, now |-> None]

FullIdle == fullTable = {} /\ fullOp = NoFullOp


ExtIdle == RefIdle /\ DatasetIdle /\ PairIdle /\ FullIdle

-----------------------------------------------------------------------------
(* The observation store as a state machine                                *)

PitIdle ==
    /\ table = {}
    /\ lastOp = [op |-> "init", outcome |-> "ok", incoming |-> {}, all_stored |-> FALSE]

InitPIT == PitIdle /\ IdIdle /\ MatIdle /\ RaceIdle /\ CalIdle /\ AlignIdle /\ ExtIdle

NextPIT ==
    \/ upsert_missing_columns
    \/ \E b \in Batches : upsert_pit_observations(b)
    \/ \E b \in Batches : upsert_duplicate_rejected(b)
    \/ \E b \in Batches : upsert_duplicate_last_wins(b)

SpecPIT == InitPIT /\ [][NextPIT]_vars

-----------------------------------------------------------------------------
(* materialize as one sequential caller's call                             *)

MaxCalls == 3      \* materialize is called at most MaxCalls times


\* materialize(ctx, template, realization, policy, lineage, fit_slice); tr is
\* what template.transform does if it is called.  The caller passes its
\* lineage graph, or None, to every call.
materialize(template, realization, policy, fit_slice, tr) ==
    LET rid == rid_of[realization]
        g == lineage_add(lineage, rid)
        got == get_frame(frames, rid)
        c == Compute(template, realization, fit_slice, tr)
    IN /\ ncalls < MaxCalls
       /\ ncalls' = ncalls + 1
       /\ IF got # <<>>
          THEN /\ lineage' = g
               /\ lastCall' = [rid |-> rid, template |-> <<template>>,
                               persist_mode |-> policy.persist_mode,
                               hit |-> TRUE, fitted |-> "skipped",
                               outcome |-> "ok", result |-> got]
               /\ returned' = returned \cup {rid}
               /\ UNCHANGED <<frames, states, tcalls, builds>>
          ELSE /\ states' = IF c.st # <<>> THEN put_state(states, c.st[1]) ELSE states
               /\ lineage' = LineageAfterFit(g, rid, c.st)
               /\ tcalls' = [tcalls EXCEPT ![rid] = @ + 1]
               /\ frames' = IF c.outcome = "ok" /\ ShouldPersist(policy)
                            THEN put_frame(frames, rid, c.frame[1]) ELSE frames
               /\ lastCall' = [rid |-> rid, template |-> <<template>>,
                               persist_mode |-> policy.persist_mode,
                               hit |-> FALSE, fitted |-> c.fitted,
                               outcome |-> c.outcome, result |-> c.frame]
               /\ returned' = IF c.outcome = "ok" THEN returned \cup {rid} ELSE returned
               /\ builds' = IF c.outcome = "ok" THEN [builds EXCEPT ![rid] = @ + 1]
                            ELSE builds
       /\ UNCHANGED <<pitVars, idVars, raceVars, timeVars, extVars>>



\* An empty store and an empty lineage graph.
InitMat ==
    /\ frames = {} /\ states = {}
    /\ lineage = <<[nodes |-> {}, edges |-> <<>>]>>
    /\ tcalls = [rid \in RealizationIds |-> 0]
    /\ builds = [rid \in RealizationIds |-> 0]
    /\ returned = {}
    /\ ncalls = 0
    /\ lastCall = NoCall
    /\ PitIdle /\ IdIdle /\ RaceIdle /\ CalIdle /\ AlignIdle /\ ExtIdle

NextMat ==
    \E template \in Templates, realization \in MatRealizations,
       policy \in MaterializationPolicies, fit_slice \in FitSlices,
       tr \in TransformResults :
        materialize(template, realization, policy, fit_slice, tr)

SpecMat == InitMat /\ [][NextMat]_vars

\* Every call is made with persist_mode = "always".
NextMatAlways ==
    \E template \in Templates, realization \in MatRealizations,
       policy \in {p \in MaterializationPolicies : p.persist_mode = "always"},
       fit_slice \in FitSlices, tr \in TransformResults :
        materialize(template, realization, policy, fit_slice, tr)

SpecMatAlways == InitMat /\ [][NextMatAlways]_vars

-----------------------------------------------------------------------------
(* Two callers of materialize on one store, no lock.  A caller's call is   *)
(* three steps: get_frame; fit, put_state, transform, stamp and validate;  *)
(* put_frame.  The callers pass no lineage graph.                          *)



\* The caller enters materialize: rid = realization.id(); lineage is None.
race_materialize(c, template, realization, policy, fit_slice) ==
    /\ callers[c].pc = "idle"
    /\ callers' = [callers EXCEPT ![c] =
          [pc |-> "get_frame", template |-> <<template>>,
           realization |-> <<realization>>, policy |-> <<policy>>,
           fit_slice |-> fit_slice, frame |-> <<>>, outcome |-> "none"]]
    /\ UNCHANGED <<frames, states, lineage, tcalls, builds, returned, ncalls,
                   lastCall, putLog, pitVars, idVars, timeVars, extVars>>

\* got = ctx.store.get_frame(rid); if got is not None: return got
race_get_frame(c) ==
    /\ callers[c].pc = "get_frame"
    /\ LET got == get_frame(frames, rid_of[callers[c].realization[1]])
       IN callers' = [callers EXCEPT ![c] =
             IF got # <<>>
             THEN [@ EXCEPT !.pc = "done", !.frame = got, !.outcome = "hit"]
             ELSE [@ EXCEPT !.pc = "compute"]]
    /\ UNCHANGED <<frames, states, lineage, tcalls, builds, returned, ncalls,
                   lastCall, putLog, pitVars, idVars, timeVars, extVars>>

\* fit, put_state, transform, meta stamp, validate.
race_compute(c, tr) ==
    /\ callers[c].pc = "compute"
    /\ LET me == callers[c]
           rid == rid_of[me.realization[1]]
           r == Compute(me.template[1], me.realization[1], me.fit_slice, tr)
       IN /\ states' = IF r.st # <<>> THEN put_state(states, r.st[1]) ELSE states
          /\ tcalls' = [tcalls EXCEPT ![rid] = @ + 1]
          /\ callers' = [callers EXCEPT ![c] =
                IF r.outcome = "ok"
                THEN [@ EXCEPT !.pc = "put_frame", !.frame = r.frame]
                ELSE [@ EXCEPT !.pc = "done", !.outcome = r.outcome]]
    /\ UNCHANGED <<frames, lineage, builds, returned, ncalls, lastCall, putLog,
                   pitVars, idVars, timeVars, extVars>>

\* if policy.persist_mode == "always": ctx.store.put_frame(rid, frame);
\* return frame
race_put_frame(c) ==
    /\ callers[c].pc = "put_frame"
    /\ LET me == callers[c]
           rid == rid_of[me.realization[1]]
       IN IF ShouldPersist(me.policy[1])
          THEN /\ frames' = put_frame(frames, rid, me.frame[1])
               /\ putLog' = Append(putLog, [caller |-> c, rid |-> rid,
                                            frame |-> me.frame[1]])
          ELSE UNCHANGED <<frames, putLog>>
    /\ callers' = [callers EXCEPT ![c] = [@ EXCEPT !.pc = "done", !.outcome = "ok"]]
    /\ UNCHANGED <<states, lineage, tcalls, builds, returned, ncalls, lastCall,
                   pitVars, idVars, timeVars, extVars>>

InitRace == MatIdle /\ RaceIdle /\ PitIdle /\ IdIdle /\ CalIdle /\ AlignIdle /\ ExtIdle

NextRace ==
    \/ \E c \in CallerIds, template \in Templates, realization \in MatRealizations,
          policy \in MaterializationPolicies, fit_slice \in FitSlices :
            race_materialize(c, template, realization, policy, fit_slice)
    \/ \E c \in CallerIds : race_get_frame(c)
    \/ \E c \in CallerIds, tr \in TransformResults : race_compute(c, tr)
    \/ \E c \in CallerIds : race_put_frame(c)

SpecRace == InitRace /\ [][NextRace]_vars

-----------------------------------------------------------------------------
(* FeatureRealization.id() applied to two realizations                     *)

id_first ==
    /\ idA = NoId
    /\ idA' = id(rA)
    /\ UNCHANGED <<rA, rB, idB, pitVars, matVars, raceVars, timeVars, extVars>>

id_second ==
    /\ idB = NoId
    /\ idB' = id(rB)
    /\ UNCHANGED <<rA, rB, idA, pitVars, matVars, raceVars, timeVars, extVars>>

InitId ==
    /\ rA \in FirstRealizations
    /\ rB \in OneFieldApart(rA)
    /\ idA = NoId /\ idB = NoId
    /\ PitIdle /\ MatIdle /\ RaceIdle /\ CalIdle /\ AlignIdle /\ ExtIdle

NextId == id_first \/ id_second

SpecId == InitId /\ [][NextId]_vars

-----------------------------------------------------------------------------
(* The calendar and the grid builders: a calendar is constructed and one   *)
(* of its functions is applied to sampled arguments                        *)

\* session labels: what sessions() returns, and the same dates as naive dates
SessionLabels ==
    {UtcMidnight(d) : d \in {x \in Days : IsBusinessDay(x)}}
    \cup {NaiveDate(d) : d \in {x \in Days : IsBusinessDay(x)}}

\* range ends: Friday 2024-03-08 to Tuesday 2024-03-12, at three times of day
RangeDays == {4, 5, 6, 7, 8}
RangeTimes == {0, 15 * Hour, 23 * Hour + Minutes(30)}
RangeInstants == {[value |-> d * Day + t, tz |-> "UTC"] : d \in RangeDays, t \in RangeTimes}

\* event timestamps as an event source may deliver them
EventValues == {7 * Day + 10 * Hour, 7 * Day + 15 * Hour, 8 * Day + 2 * Hour}
EventZones == {"naive", "UTC", "America/New_York"}
EventSeqs == UNION {[1..n -> EventValues] : n \in 0..MaxEvents}
EventGrids == {[tz |-> z, values |-> v] : z \in EventZones, v \in EventSeqs}
ClipBounds == {<<>>, <<[value |-> 7 * Day + 15 * Hour, tz |-> "UTC"]>>}

Call_session_open_utc(session_label) ==
    /\ calCall = NoCalCall
    /\ calCall' = [NoCalCall EXCEPT !.op = "session_open_utc", !.label = session_label,
                                    !.ts = session_open_utc(cal, session_label)]
    /\ UNCHANGED <<cal, alignVars, pitVars, idVars, matVars, raceVars, extVars>>

Call_session_close_utc(session_label) ==
    /\ calCall = NoCalCall
    /\ calCall' = [NoCalCall EXCEPT !.op = "session_close_utc", !.label = session_label,
                                    !.ts = session_close_utc(cal, session_label)]
    /\ UNCHANGED <<cal, alignVars, pitVars, idVars, matVars, raceVars, extVars>>

Call_trading_minutes_utc(start_utc, end_utc, freq) ==
    /\ calCall = NoCalCall
    /\ calCall' = [NoCalCall EXCEPT !.op = "trading_minutes_utc", !.start = start_utc,
                                    !.end = end_utc, !.token = freq,
                                    !.result = Returned(trading_minutes_utc(cal, start_utc, end_utc, freq))]
    /\ UNCHANGED <<cal, alignVars, pitVars, idVars, matVars, raceVars, extVars>>

Call_build_grid_utc(start_utc, end_utc, grid) ==
    /\ calCall = NoCalCall
    /\ calCall' = [NoCalCall EXCEPT !.op = "build_grid_utc", !.start = start_utc,
                                    !.end = end_utc, !.token = grid,
                                    !.result = build_grid_utc(cal, start_utc, end_utc, grid)]
    /\ UNCHANGED <<cal, alignVars, pitVars, idVars, matVars, raceVars, extVars>>

Call_normalize_grid(grid, start_utc, end_utc) ==
    /\ calCall = NoCalCall
    /\ calCall' = [NoCalCall EXCEPT !.op = "normalize_grid", !.events = grid,
                                    !.lo = start_utc, !.hi = end_utc,
                                    !.result = Returned(normalize_grid(grid, start_utc, end_utc))]
    /\ UNCHANGED <<cal, alignVars, pitVars, idVars, matVars, raceVars, extVars>>

InitCal ==
    /\ cal \in {TradingCalendar("XCAL", tz) : tz \in CalendarZones}
    /\ calCall = NoCalCall
    /\ AlignIdle /\ PitIdle /\ IdIdle /\ MatIdle /\ RaceIdle /\ ExtIdle

NextCal ==
    \/ \E l \in SessionLabels : Call_session_open_utc(l)
    \/ \E l \in SessionLabels : Call_session_close_utc(l)
    \/ \E s \in RangeInstants, e \in RangeInstants, f \in Freqs : Call_trading_minutes_utc(s, e, f)
    \/ \E s \in RangeInstants, e \in RangeInstants, g \in GridTokens : Call_build_grid_utc(s, e, g)
    \/ \E g \in EventGrids, lo \in ClipBounds, hi \in ClipBounds : Call_normalize_grid(g, lo, hi)

SpecCal == InitCal /\ [][NextCal]_vars

-----------------------------------------------------------------------------
(* align_panel applied to sampled panels, schemas, grids and fill methods  *)

\* raw rows: stamped 00:00 and 21:00 on the first date and 00:00 on the
\* second; fields x and y
RawTimes == {0, 21 * Hour, Day}
RawValues ==
    {[x |-> NaN, y |-> NaN], [x |-> <<12>>, y |-> NaN],
     [x |-> NaN, y |-> <<12>>], [x |-> <<24>>, y |-> <<12>>]}
RawRows(ent) == {[ts |-> t, entity |-> ent, v |-> v] : t \in RawTimes, v \in RawValues}

\* the first entity's rows: at most MaxRaw, no two with the same timestamp
PanelsOf(ent) ==
    {p \in SUBSET RawRows(ent) :
        /\ Cardinality(p) <= MaxRaw
        /\ \A r \in p : \A q \in p : r.ts = q.ts => r = q}

\* the second entity is absent or has one full row
OtherRows == {{}, {[ts |-> Day, entity |-> "B", v |-> [x |-> <<12>>, y |-> <<12>>]]}}

Panels == {p \cup q : p \in PanelsOf("A"), q \in OtherRows}

Schemas ==
    {[native_freq |-> <<"D">>, expected_cadence_days |-> <<>>],
     [native_freq |-> <<"m">>, expected_cadence_days |-> <<>>],
     [native_freq |-> <<"W">>, expected_cadence_days |-> <<>>],
     [native_freq |-> <<>>, expected_cadence_days |-> <<>>],
     [native_freq |-> <<"D">>, expected_cadence_days |-> <<30>>]}

AlignSpecs ==
    {[method |-> "none", max_fill_gap_days |-> <<>>],
     [method |-> "ffill", max_fill_gap_days |-> <<>>],
     [method |-> "step_hold", max_fill_gap_days |-> <<1>>],
     [method |-> "interp", max_fill_gap_days |-> <<>>],
     [method |-> "nearest", max_fill_gap_days |-> <<>>]}

\* grids of MaxGrid timestamps: session labels (UTC midnights), session
\* closes (21:00 UTC), an unsorted and a repeating sequence; the session
\* labels also as a naive and as a New York index; and the empty grid
SessionLabelGrid == [i \in 1..MaxGrid |-> (i - 1) * Day]
SessionCloseGrid == [i \in 1..MaxGrid |-> (i - 1) * Day + 21 * Hour]
UnsortedGrid == [i \in 1..MaxGrid |-> IF i = 1 THEN Day ELSE IF i = 2 THEN 0 ELSE (i - 1) * Day]
RepeatingGrid == [i \in 1..MaxGrid |-> ((i - 1) \div 2) * Day]
TargetGrids ==
    {[tz |-> "UTC", values |-> v] :
        v \in {SessionLabelGrid, SessionCloseGrid, UnsortedGrid, RepeatingGrid, <<>>}}
    \cup {[tz |-> z, values |-> SessionLabelGrid] : z \in {"naive", "America/New_York"}}

Call_align_panel(panel, schema, grid, align) ==
    /\ alignCall = NoAlignCall
    /\ alignCall' = [op |-> "align_panel", panel |-> panel, schema |-> schema,
                     grid |-> grid, align |-> align,
                     result |-> align_panel(panel, schema, grid, align)]
    /\ UNCHANGED <<calVars, pitVars, idVars, matVars, raceVars, extVars>>

InitAlign == AlignIdle /\ CalIdle /\ PitIdle /\ IdIdle /\ MatIdle /\ RaceIdle /\ ExtIdle

NextAlign ==
    /\ alignCall = NoAlignCall
    /\ \E p \in Panels, s \in Schemas, g \in TargetGrids, a \in AlignSpecs :
          Call_align_panel(p, s, g, a)

SpecAlign == InitAlign /\ [][NextAlign]_vars

-----------------------------------------------------------------------------
(* Reference periods: one function is applied to sampled arguments         *)

\* years: a century year that is no leap year, one that is, a common year
\* and a leap year
RefYears == {1900, 2000, 2023, 2024}
RefPeriods ==
    {RefPeriod("A", y, 1) : y \in RefYears}
    \cup {RefPeriod("Q", y, q) : y \in RefYears, q \in 1..4}
    \cup {RefPeriod("M", y, m) : y \in RefYears, m \in 1..12}
\* a year that needs zero padding, and periods no calendar has
OtherRefPeriods ==
    {RefPeriod("Q", 800, 3), RefPeriod("M", 800, 7), RefPeriod("A", 800, 1),
     RefPeriod("Q", 2024, 5), RefPeriod("M", 2024, 13)}

\* timestamps handed to from_obs_date_end: first, middle and last days of
\* every month, at midnight and later in the day, naive or zoned
RefTimestamps ==
    {Timestamp(y, m, d, h, tz) :
        y \in RefYears, m \in 1..12, d \in {1, 15, 28, 29, 30, 31},
        h \in {0, 5, 20}, tz \in {"naive", "UTC", "Asia/Tokyo"}}
    \cap {ts \in [year : RefYears, month : 1..12, day : 1..31, hour : 0..23,
                  tz : {"naive", "UTC", "Asia/Tokyo"}] :
             ts.day <= DaysInMonth(ts.year, ts.month)}

SeriesKeyTexts == {<<"G", "D", "P">>, <<"U", "S", "|", "G">>, <<>>}

KeyTexts ==
    {<<"2", "0", "2", "4", "Q", "4">>, <<"2", "0", "2", "5", "q", "1">>,
     <<"2", "0", "2", "5", "-", "0", "1">>, <<"2", "0", "2", "5", "/", "0", "1">>,
     <<"2", "0", "2", "5">>, <<" ", "2", "0", "2", "5", " ">>,
     <<"2", "0", "2", "5", "-", "0", "1", "-", "3", "1">>,
     <<"2", "0", "2", "5", "-", "0", "2", "-", "2", "9">>,
     <<"2", "0", "2", "4", "-", "0", "2", "-", "2", "8">>,
     <<"2", "0", "2", "5", "-", "1", "3">>, <<"2", "0", "2", "4", "Q", "5">>,
     <<"G", "|", "2", "0", "2", "4">>, <<>>}

Call_end_obs_date(ref) ==
    /\ refCall.op = "init"
    /\ refCall' = [NoRefCall EXCEPT !.op = "end_obs_date", !.ref = ref,
                                    !.result = end_obs_date(ref)]
    /\ UNCHANGED <<pitVars, idVars, matVars, raceVars, timeVars, dsVars, pairVars, fullVars>>

Call_from_obs_date_end(ts, freq) ==
    /\ refCall.op = "init"
    /\ refCall' = [NoRefCall EXCEPT !.op = "from_obs_date_end", !.ts = ts, !.freq = freq,
                                    !.result = from_obs_date_end(ts, freq)]
    /\ UNCHANGED <<pitVars, idVars, matVars, raceVars, timeVars, dsVars, pairVars, fullVars>>

\* RefPeriod.from_obs_date_end(ref.end_obs_date(), freq=ref.freq)
Call_round_trip_from_obs_end(ref) ==
    /\ refCall.op = "init"
    /\ LET end == end_obs_date(ref)
       IN  refCall' = [NoRefCall EXCEPT
                          !.op = "round_trip_from_obs_end", !.ref = ref,
                          !.result = IF end.raised # "" THEN end
                                     ELSE from_obs_date_end(end.value, ref.freq)]
    /\ UNCHANGED <<pitVars, idVars, matVars, raceVars, timeVars, dsVars, pairVars, fullVars>>

Call_parse(text) ==
    /\ refCall.op = "init"
    /\ refCall' = [NoRefCall EXCEPT !.op = "parse", !.text = text, !.result = parse(text)]
    /\ UNCHANGED <<pitVars, idVars, matVars, raceVars, timeVars, dsVars, pairVars, fullVars>>

\* parse_ref_entity_id(make_ref_entity_id(series_key, ref))
Call_ref_entity_id_helpers(series_key, ref) ==
    /\ refCall.op = "init"
    /\ LET made == make_ref_entity_id(series_key, ref)
       IN  refCall' = [NoRefCall EXCEPT
                          !.op = "ref_entity_id_helpers", !.series_key = series_key,
                          !.ref = ref,
                          !.text = IF made.raised # "" THEN <<>> ELSE made.value,
                          !.result = IF made.raised # "" THEN made
                                     ELSE parse_ref_entity_id(made.value)]
    /\ UNCHANGED <<pitVars, idVars, matVars, raceVars, timeVars, dsVars, pairVars, fullVars>>

InitRef ==
    /\ refCall = NoRefCall
    /\ DatasetIdle /\ PairIdle /\ FullIdle
    /\ PitIdle /\ IdIdle /\ MatIdle /\ RaceIdle /\ CalIdle /\ AlignIdle

NextRef ==
    \/ \E ref \in RefPeriods \cup OtherRefPeriods : Call_end_obs_date(ref)
    \/ \E ts \in RefTimestamps, freq \in RefFreq \cup {"W"} : Call_from_obs_date_end(ts, freq)
    \/ \E ref \in RefPeriods \cup OtherRefPeriods : Call_round_trip_from_obs_end(ref)
    \/ \E text \in KeyTexts : Call_parse(text)
    \/ \E series_key \in SeriesKeyTexts, ref \in RefPeriods \cup OtherRefPeriods :
          Call_ref_entity_id_helpers(series_key, ref)

SpecRef == InitRef /\ [][NextRef]_vars


-----------------------------------------------------------------------------
(* Dataset assembly: build_dataset is called once on a sampled spec, over  *)
(* the calendar XNYS with its clocks on UTC (open 09:30, close 16:00)      *)

\* the source rows: a midnight session label, an intraday bar and a close on
\* Monday 2024-03-04, and an intraday bar on Tuesday
SourceTimes == {0, 11 * Hour + Minutes(30), 16 * Hour, Day + 11 * Hour + Minutes(30)}
SourceRows == {[ts |-> t, entity |-> "AAA", v |-> <<10>>] : t \in SourceTimes}

AsofTimes2 == {<<>>, <<[value |-> 12 * Hour, tz |-> "UTC"]>>,
               <<[value |-> Day + 12 * Hour, tz |-> "UTC"]>>}
SliceOverrides == {<<>>, <<[asof |-> <<[value |-> Day + 12 * Hour, tz |-> "UTC"]>>]>>}

DatasetSpecs ==
    [universe : {[entities |-> e] : e \in {<<"AAA">>, <<>>}},
     time : [start : {UtcMidnight(0)},
             end : {[value |-> 23 * Hour + Minutes(30), tz |-> "UTC"],
                    [value |-> Day + 23 * Hour + Minutes(30), tz |-> "UTC"]},
             calendar : {"XNYS", "XLON"},
             grid : {"sessions", "60min", "weekly"},
             asof : AsofTimes2],
     target : [template : TemplateKinds, slice_override : {<<>>}],
     features : {<<>>} \cup {<<[template |-> k, slice_override |-> o]>> :
                                k \in TemplateKinds, o \in SliceOverrides},
     missingness : [final_row_policy : {"drop_if_any_nan", "keep", "drop"}]]

Call_build_dataset(spec, source) ==
    /\ dsCall.op = "init"
    /\ dsCall' = [op |-> "build_dataset", spec |-> spec, source |-> source,
                  result |-> build_dataset(cal, spec, source)]
    /\ UNCHANGED <<pitVars, idVars, matVars, raceVars, timeVars, refVars, pairVars, fullVars>>

InitDataset ==
    /\ dsCall = NoDatasetCall
    /\ RefIdle /\ PairIdle /\ FullIdle
    /\ PitIdle /\ IdIdle /\ MatIdle /\ RaceIdle /\ CalIdle /\ AlignIdle

NextDataset ==
    /\ dsCall.op = "init"
    /\ \E spec \in DatasetSpecs, source \in SUBSET SourceRows : Call_build_dataset(spec, source)

SpecDataset == InitDataset /\ [][NextDataset]_vars


-----------------------------------------------------------------------------
(* align_panel called twice: on two panels that differ in the rows of one  *)
(* timestamp, or on one panel with two choices of asof and respect_asof    *)

\* pairs of one-entity panels that differ at most in the row of one timestamp
PanelPairs ==
    {pq \in PanelsOf("A") \X PanelsOf("A") :
        \E t \in RawTimes : {r \in pq[1] : r.ts # t} = {r \in pq[2] : r.ts # t}}

PairSchemas == {s \in Schemas : s.expected_cadence_days = <<>> /\ s.native_freq \in {<<"D">>, <<"W">>}}
PairGrids == {[tz |-> "UTC", values |-> v] : v \in {SessionLabelGrid, SessionCloseGrid}}
PairMethods == {"none", "ffill", "step_hold", "interp"}
PairGaps == {<<>>, <<1>>}
PairAsofs == {<<>>, <<UtcMidnight(0)>>, <<UtcMidnight(1)>>}

\* align_panel(panelA, ...) and align_panel(panelB, ...), asof left at None
Call_align_panel_two_panels(panelA, panelB, schema, grid, align) ==
    /\ alignPair.op = "init"
    /\ alignPair' = [NoPairCall EXCEPT
                        !.op = "two_panels", !.panelA = panelA, !.panelB = panelB,
                        !.schema = schema, !.grid = grid, !.alignA = align, !.alignB = align,
                        !.resultA = align_panel_asof(panelA, schema, grid, align, <<>>),
                        !.resultB = align_panel_asof(panelB, schema, grid, align, <<>>)]
    /\ UNCHANGED <<pitVars, idVars, matVars, raceVars, timeVars, refVars, dsVars, fullVars>>

\* align_panel(panel, ..., alignA, asofA) and align_panel(panel, ..., alignB,
\* asofB), alignA and alignB equal in method and max_fill_gap_days
Call_align_panel_two_asofs(panel, schema, grid, alignA, alignB, asofA, asofB) ==
    /\ alignPair.op = "init"
    /\ alignA.method = alignB.method
    /\ alignA.max_fill_gap_days = alignB.max_fill_gap_days
    /\ alignPair' = [NoPairCall EXCEPT
                        !.op = "two_asofs", !.panelA = panel, !.panelB = panel,
                        !.schema = schema, !.grid = grid,
                        !.alignA = alignA, !.alignB = alignB,
                        !.asofA = asofA, !.asofB = asofB,
                        !.resultA = align_panel_asof(panel, schema, grid, alignA, asofA),
                        !.resultB = align_panel_asof(panel, schema, grid, alignB, asofB)]
    /\ UNCHANGED <<pitVars, idVars, matVars, raceVars, timeVars, refVars, dsVars, fullVars>>

InitAlignPair ==
    /\ alignPair = NoPairCall
    /\ RefIdle /\ DatasetIdle /\ FullIdle
    /\ PitIdle /\ IdIdle /\ MatIdle /\ RaceIdle /\ CalIdle /\ AlignIdle

NextAlignPair ==
    /\ alignPair.op = "init"
    /\ \/ \E pq \in PanelPairs, s \in PairSchemas, g \in PairGrids,
            m \in PairMethods, gap \in PairGaps :
             Call_align_panel_two_panels(pq[1], pq[2], s, g, AlignSpec(m, TRUE, gap))
       \/ \E p \in PanelsOf("A"), s \in PairSchemas, g \in PairGrids,
            m \in {"ffill", "interp"}, ra \in BOOLEAN, rb \in BOOLEAN,
            asofA \in PairAsofs, asofB \in PairAsofs :
             Call_align_panel_two_asofs(p, s, g, AlignSpec(m, ra, <<>>),
                                        AlignSpec(m, rb, <<>>), asofA, asofB)

SpecAlignPair == InitAlignPair /\ [][NextAlignPair]_vars


-----------------------------------------------------------------------------
(* upsert_pit_observations called with frames that supply some or all of   *)
(* the optional columns                                                    *)

\* the column sets of the incoming frames: all columns, the required ones
\* only, the required ones with revision_id and source, and a frame that
\* lacks the required column value
FrameColumnSets ==
    {PitColumnSet, RequiredColumns, RequiredColumns \cup {"revision_id", "source"},
     PitColumnSet \ {"value"}}

\* as-of instants 1 and 2, the second also written in the zone +01:00
FullAsofs == {[wall |-> 1, tz |-> "UTC"], [wall |-> 2, tz |-> "UTC"], [wall |-> 3, tz |-> "+01:00"]}

\* what a row carries besides its key: every field set; some fields null;
\* value and ingested_utc null
FullPayloads ==
    {[value |-> <<10>>, release_time_utc |-> [wall |-> 4, tz |-> "naive"],
      revision_id |-> <<"r1">>, source |-> <<"fred">>, meta_json |-> <<"{}">>,
      ingested_utc |-> [wall |-> 5, tz |-> "naive"]],
     [value |-> <<20>>, release_time_utc |-> [wall |-> 6, tz |-> "+01:00"],
      revision_id |-> NaN, source |-> <<"alfred">>, meta_json |-> NaN,
      ingested_utc |-> [wall |-> 7, tz |-> "+01:00"]],
     [value |-> NaN, release_time_utc |-> None,
      revision_id |-> <<"r2">>, source |-> NaN, meta_json |-> <<"{}">>,
      ingested_utc |-> None]}

FullRow(asof, payload) ==
    [col \in PitColumnSet |->
        IF col = "series_key" THEN "GDP"
        ELSE IF col = "obs_date" THEN [wall |-> 1, tz |-> "naive"]
        ELSE IF col = "asof_utc" THEN asof
        ELSE payload[col]]

Project(row, columns) == [col \in columns |-> row[col]]

\* frames of one row, and frames of the required columns with two rows that
\* carry the same value
Frames ==
    {[columns |-> cols, rows |-> <<Project(FullRow(a, p), cols)>>] :
        cols \in FrameColumnSets, a \in FullAsofs, p \in FullPayloads}
    \cup {[columns |-> cols,
           rows |-> <<Project(FullRow(a, p), cols), Project(FullRow(b, p), cols)>>] :
             cols \in {RequiredColumns}, a \in FullAsofs, b \in FullAsofs, p \in FullPayloads}

\* pd.Timestamp.now("UTC")
NowTimes == {[wall |-> 8, tz |-> "UTC"], [wall |-> 9, tz |-> "UTC"]}

FullOutcome(outcome, df, incoming, now) ==
    [op |-> "upsert", outcome |-> outcome, columns |-> df.columns,
     incoming |-> incoming, now |-> now]

\* A required column is missing: ValueError before anything is written.
upsert_all_missing_columns(df, now) ==
    /\ ~(RequiredColumns \subseteq df.columns)
    /\ fullOp' = FullOutcome("ValueError", df, {}, now)
    /\ UNCHANGED fullTable
    /\ UNCHANGED <<pitVars, idVars, matVars, raceVars, timeVars, refVars, dsVars, pairVars>>

\* The frame supplies ingested_utc with a null in it: the statement fails on
\* the NOT NULL constraint.
upsert_all_not_null(df, now) ==
    /\ RequiredColumns \subseteq df.columns
    /\ not_null_violated(pit_incoming(df, now))
    /\ fullOp' = FullOutcome("ConstraintError", df, {}, now)
    /\ UNCHANGED fullTable
    /\ UNCHANGED <<pitVars, idVars, matVars, raceVars, timeVars, refVars, dsVars, pairVars>>

\* The statement is applied; when two incoming rows share a natural key the
\* engine either rejects the statement or applies the last row of the key.
upsert_all_columns(df, now, last_wins) ==
    LET rows == pit_incoming(df, now)
        distinct == \A i, j \in 1..Len(rows) :
                        i # j => NaturalKey(rows[i]) # NaturalKey(rows[j])
    IN /\ RequiredColumns \subseteq df.columns
       /\ ~not_null_violated(rows)
       /\ IF distinct \/ last_wins
          THEN /\ fullTable' = InsertOnConflictUpdate(fullTable, LastOfKey(rows))
               /\ fullOp' = FullOutcome("ok", df,
                                LastOfKey([i \in 1..Len(df.rows) |->
                                              normalize_datetime_columns(df.rows[i])]),
                                now)
          ELSE /\ UNCHANGED fullTable
               /\ fullOp' = FullOutcome("ConstraintError", df, {}, now)
       /\ UNCHANGED <<pitVars, idVars, matVars, raceVars, timeVars, refVars, dsVars, pairVars>>

InitUpsert ==
    /\ fullTable = {} /\ fullOp = NoFullOp
    /\ RefIdle /\ DatasetIdle /\ PairIdle
    /\ PitIdle /\ IdIdle /\ MatIdle /\ RaceIdle /\ CalIdle /\ AlignIdle

NextUpsert ==
    \E df \in Frames, now \in NowTimes :
        \/ upsert_all_missing_columns(df, now)
        \/ upsert_all_not_null(df, now)
        \/ \E last_wins \in BOOLEAN : upsert_all_columns(df, now, last_wins)

SpecUpsert == InitUpsert /\ [][NextUpsert]_vars



-----------------------------------------------------------------------------
(* Properties of the observation store                                     *)

\* The UTC instant an aware timestamp denotes.
InstantOf(ts) == ts.wall - UtcOffset(ts.tz)

\* The stored rows of one series and period known at instant n.
KnownAt(t, series_key, d, n) ==
    {r \in t : r.series_key = series_key /\ r.obs_date.wall = d
               /\ r.asof_utc.wall <= n}

\* The periods of one series with at least one row known at instant n.
PeriodsKnownAt(t, series_key, n) ==
    {d \in ObsDates : KnownAt(t, series_key, d, n) # {}}

StoredKeys(t) == {NaturalKey(r) : r \in t}

\* C1: get_snapshot(series_key, T) has exactly one entry per observation
\* period with a stored row whose as_of <= T (boundary inclusive), the entry's
\* value is that of the row with the greatest as_of <= T, entries ascend by
\* period, and periods with no row at or before T are absent.
C1_SnapshotLatestLeq ==
    \A sk \in SeriesKeys, T \in QueryInstants :
        LET results == get_snapshot(table, sk, T, None, None)
            known == PeriodsKnownAt(table, sk, InstantOf(T))
        IN /\ results # {}
           /\ \A s \in results :
                /\ Len(s) = Cardinality(known)
                /\ {s[i].obs_date : i \in DOMAIN s}
                       = {[wall |-> d, tz |-> "UTC"] : d \in known}
                /\ \A i, j \in DOMAIN s :
                       i < j => s[i].obs_date.wall < s[j].obs_date.wall
                /\ \A i \in DOMAIN s :
                       \E r \in KnownAt(table, sk, s[i].obs_date.wall, InstantOf(T)) :
                           /\ r.value = s[i].value
                           /\ \A q \in KnownAt(table, sk, s[i].obs_date.wall,
                                               InstantOf(T)) :
                                  q.asof_utc.wall <= r.asof_utc.wall

\* C1 witness: a series with a revised period (two vintages with different
\* values) and a second period first known later; the snapshot at the earlier
\* instant holds the first vintage alone and the later snapshot both periods.
C1_Witness ==
    \E sk \in SeriesKeys, T1, T2 \in QueryInstants :
        /\ InstantOf(T1) < InstantOf(T2)
        /\ \E r1, r2, r3 \in table :
              /\ r1.series_key = sk /\ r2.series_key = sk /\ r3.series_key = sk
              /\ r1.obs_date = r2.obs_date /\ r1.value # r2.value
              /\ r1.asof_utc.wall = InstantOf(T1)
              /\ r2.asof_utc.wall = InstantOf(T2)
              /\ r3.obs_date.wall > r1.obs_date.wall
              /\ r3.asof_utc.wall = InstantOf(T2)
              /\ get_snapshot(table, sk, T1, None, None)
                     = {<<[obs_date |-> to_utc_aware(r1.obs_date), value |-> r1.value]>>}
              /\ get_snapshot(table, sk, T2, None, None)
                     = {<<[obs_date |-> to_utc_aware(r2.obs_date), value |-> r2.value],
                          [obs_date |-> to_utc_aware(r3.obs_date), value |-> r3.value]>>}

\* C2: a successful upsert whose incoming rows all have as_of strictly later
\* than T leaves get_snapshot(series_key, T) unchanged for every series_key.
C2_SnapshotStableUnderLaterData ==
    [][(lastOp'.op = "upsert" /\ lastOp'.outcome = "ok") =>
          \A T \in QueryInstants :
              (\A r \in lastOp'.incoming : r.asof_utc.wall > InstantOf(T)) =>
                  \A sk \in SeriesKeys :
                      get_snapshot(table', sk, T, None, None)
                          = get_snapshot(table, sk, T, None, None)]_vars

\* C2 witness: the last upsert brought a later vintage of a period whose
\* earlier vintage is what the snapshot at T still shows.
C2_Witness ==
    /\ lastOp.op = "upsert" /\ lastOp.outcome = "ok"
    /\ \E T \in QueryInstants, r \in lastOp.incoming, q \in table :
          /\ \A x \in lastOp.incoming : x.asof_utc.wall > InstantOf(T)
          /\ q.series_key = r.series_key /\ q.obs_date = r.obs_date
          /\ q.asof_utc.wall <= InstantOf(T)
          /\ q.value # r.value
          /\ r \in table
          /\ get_snapshot(table, r.series_key, T, None, None)
                 = {<<[obs_date |-> to_utc_aware(q.obs_date), value |-> q.value]>>}

\* All snapshots and all revision timelines of a table.
Observables(t) ==
    [snapshots |->
        [sk \in SeriesKeys |-> [T \in QueryInstants |->
            get_snapshot(t, sk, T, None, None)]],
     timelines |->
        [sk \in SeriesKeys |-> [d \in ObsInputs |->
            get_revision_timeline(t, sk, d, None, None)]]]

\* C3: an upsert of rows with pairwise distinct natural keys that all exist
\* already leaves the row count and the set of stored keys unchanged and makes
\* each matching row's value the incoming value; applying the batch just
\* applied once more changes neither row count, snapshots nor timelines.
C3_UpsertIdempotentPerKey ==
    [][(lastOp'.op = "upsert" /\ lastOp'.outcome = "ok") =>
          /\ ({NaturalKey(r) : r \in lastOp'.incoming} \subseteq StoredKeys(table)) =>
                /\ Cardinality(table') = Cardinality(table)
                /\ StoredKeys(table') = StoredKeys(table)
                /\ \A r \in lastOp'.incoming : \A q \in table' :
                       NaturalKey(q) = NaturalKey(r) => q.value = r.value
          /\ (lastOp.outcome = "ok" /\ lastOp'.incoming = lastOp.incoming) =>
                /\ Cardinality(table') = Cardinality(table)
                /\ Observables(table') = Observables(table)]_vars

\* C3 witness: a two-row batch was applied to a table that already held both
\* keys, beside a row the batch does not name.
C3_Witness ==
    /\ lastOp.op = "upsert" /\ lastOp.outcome = "ok"
    /\ Cardinality(lastOp.incoming) = 2
    /\ lastOp.all_stored
    /\ lastOp.incoming \subseteq table
    /\ table # lastOp.incoming

\* C4: no two stored rows share (series_key, obs_date, asof_utc), all three
\* held in UTC; so at most one row of a series and period attains the greatest
\* as_of <= T, and get_snapshot has a single possible result.
C4_NaturalKeyUnique ==
    /\ \A r, q \in table : NaturalKey(r) = NaturalKey(q) => r = q
    /\ \A r \in table : r.obs_date.tz = "naive" /\ r.asof_utc.tz = "naive"
    /\ \A sk \in SeriesKeys, T \in QueryInstants :
          /\ \A d \in ObsDates :
                Cardinality({r \in KnownAt(table, sk, d, InstantOf(T)) :
                    \A q \in KnownAt(table, sk, d, InstantOf(T)) :
                        q.asof_utc.wall <= r.asof_utc.wall}) <= 1
          /\ Cardinality(get_snapshot(table, sk, T, None, None)) = 1

\* C4 witness: an upsert found its key already stored, in a series that has
\* two vintages of one period.
C4_Witness ==
    /\ lastOp.op = "upsert" /\ lastOp.outcome = "ok"
    /\ lastOp.incoming # {}
    /\ lastOp.all_stored
    /\ \E r, q \in table :
          /\ r.series_key = q.series_key /\ r.obs_date = q.obs_date
          /\ r.asof_utc # q.asof_utc
          /\ r \in lastOp.incoming

\* The stored rows a timeline query is about: one series, one period, as_of
\* within the inclusive window (a side that is None is unbounded).
InWindow(t, sk, d, lo, hi) ==
    {r \in t :
        /\ r.series_key = sk /\ r.obs_date.wall = d.wall
        /\ lo # None => r.asof_utc.wall >= InstantOf(lo)
        /\ hi # None => r.asof_utc.wall <= InstantOf(hi)}

\* C5: get_revision_timeline(series_key, period, start_asof, end_asof) returns
\* exactly the stored rows of that series and period with as_of in the
\* inclusive window, one entry per row, strictly ascending by as_of.
C5_RevisionTimeline ==
    \A sk \in SeriesKeys, d \in ObsInputs, lo \in AsofBounds, hi \in AsofBounds :
        LET s == get_revision_timeline(table, sk, d, lo, hi)
            rows == InWindow(table, sk, d, lo, hi)
        IN /\ Len(s) = Cardinality(rows)
           /\ {<<s[i].asof_utc, s[i].value>> : i \in DOMAIN s}
                  = {<<[wall |-> r.asof_utc.wall, tz |-> "UTC"], r.value>> : r \in rows}
           /\ \A i, j \in DOMAIN s :
                  i < j => s[i].asof_utc.wall < s[j].asof_utc.wall

\* C5 witness: a period with two vintages, stored beside another period and
\* another series; the full timeline has both vintages in as_of order and a
\* window ending at the first vintage has that one alone.
C5_Witness ==
    \E r1, r2, r3 \in table :
        /\ r1.series_key = r2.series_key /\ r1.obs_date = r2.obs_date
        /\ r1.asof_utc.wall < r2.asof_utc.wall
        /\ r3.series_key # r1.series_key /\ r3.obs_date = r1.obs_date
        /\ get_revision_timeline(table, r1.series_key, r1.obs_date, None, None)
               = <<[asof_utc |-> to_utc_aware(r1.asof_utc), value |-> r1.value],
                   [asof_utc |-> to_utc_aware(r2.asof_utc), value |-> r2.value]>>
        /\ get_revision_timeline(table, r1.series_key, r1.obs_date, None,
                                 to_utc_aware(r1.asof_utc))
               = <<[asof_utc |-> to_utc_aware(r1.asof_utc), value |-> r1.value]>>

-----------------------------------------------------------------------------
(* Properties of materialize and of the realization id                     *)

\* The frame stored under a realization id, as a set (empty when none is).
StoredUnder(t, rid) == {q.frame : q \in {x \in t : x.realization_id = rid}}

\* C6 as stated: in a sequence of calls with persist_mode = "always", the
\* transform has been invoked exactly once for every realization id a call has
\* returned a frame for.
C6_TransformInvokedOnce ==
    \A rid \in returned : tcalls[rid] = 1

\* C6, amended: in a sequence of calls with persist_mode = "always", once a
\* call for realization id r has returned a frame, a later call for r invokes
\* neither fit nor transform, writes nothing and returns the frame stored under
\* r; so exactly one call for r both invoked the transform and returned (calls
\* whose transform or validation raised may have invoked it before).
C6_AtMostOneBuild ==
    [][/\ \A rid \in RealizationIds :
            /\ builds'[rid] <= 1
            /\ rid \in returned' => builds'[rid] = 1
       /\ (ncalls' = ncalls + 1 /\ lastCall'.rid \in returned) =>
            /\ lastCall'.hit
            /\ lastCall'.fitted = "skipped"
            /\ tcalls' = tcalls
            /\ lastCall'.outcome = "ok"
            /\ lastCall'.result # <<>>
            /\ StoredUnder(frames, lastCall'.rid) = {lastCall'.result[1]}
            /\ frames' = frames /\ states' = states]_vars

\* C6 witness: a call whose transform raised, a call that built and stored the
\* frame, then a call that was served from the store.
C6_Witness ==
    /\ ncalls = 3
    /\ lastCall.hit /\ lastCall.outcome = "ok"
    /\ tcalls[lastCall.rid] = 2
    /\ builds[lastCall.rid] = 1
    /\ StoredUnder(frames, lastCall.rid) = {lastCall.result[1]}

\* C7: with two callers interleaving materialize on an initially empty store,
\* whenever put_frame has been called for a realization id the store holds
\* exactly one frame under it, the one the last of those put_frame calls wrote
\* (and none under an id put_frame was not called for).
C7_LastWriterWins ==
    \A rid \in RealizationIds :
        LET puts == {i \in DOMAIN putLog : putLog[i].rid = rid}
            rows == {q \in frames : q.realization_id = rid}
        IN IF puts = {} THEN rows = {}
           ELSE LET last == CHOOSE i \in puts : \A j \in puts : j <= i
                IN rows = {[realization_id |-> rid,
                            frame |-> StoredFrame(putLog[last].frame)]}

\* C7 witness: both callers missed the cache for one realization id, both
\* invoked the transform, both called put_frame with different frames, both
\* have returned, and the store holds the second writer's frame.
C7_Witness ==
    /\ \A c \in CallerIds : callers[c].pc = "done" /\ callers[c].outcome = "ok"
    /\ Len(putLog) = 2
    /\ putLog[1].caller # putLog[2].caller
    /\ putLog[1].rid = putLog[2].rid
    /\ tcalls[putLog[1].rid] = 2
    /\ putLog[1].frame.X # putLog[2].frame.X
    /\ StoredUnder(frames, putLog[2].rid) = {StoredFrame(putLog[2].frame)}

\* C8 as stated, for one template object: two consecutive materialize calls
\* with the same template and the same realization id that both miss the
\* cache and both return compute the same X, whatever fit_slice each is given.
C8_IdDeterminesResult ==
    [][(/\ ncalls' = ncalls + 1
        /\ lastCall.outcome = "ok" /\ ~lastCall.hit
        /\ lastCall'.outcome = "ok" /\ ~lastCall'.hit
        /\ lastCall'.template = lastCall.template
        /\ lastCall'.rid = lastCall.rid) =>
            lastCall'.result[1].X = lastCall.result[1].X]_vars

\* C9: a materialize call that misses the cache and computes a valid frame
\* leaves that frame stored under the realization id iff persist_mode =
\* "always", other ids' frames untouched; a miss with persist_mode "never" or
\* "selected" leaves the frames unchanged, and the next call for the same
\* realization id misses again and invokes the transform again.
C9_PersistIffAlways ==
    [][(ncalls' = ncalls + 1 /\ ~lastCall'.hit) =>
          LET rid == lastCall'.rid
          IN /\ lastCall'.outcome = "ok" =>
                  /\ (StoredUnder(frames', rid) # {}) <=> (lastCall'.persist_mode = "always")
                  /\ lastCall'.persist_mode = "always" =>
                        /\ StoredUnder(frames', rid) = {StoredFrame(lastCall'.result[1])}
                        /\ {q \in frames' : q.realization_id # rid}
                              = {q \in frames : q.realization_id # rid}
             /\ lastCall'.persist_mode \in {"never", "selected"} => frames' = frames
             /\ (/\ lastCall.rid = rid /\ ~lastCall.hit
                 /\ lastCall.persist_mode \in {"never", "selected"}) =>
                    tcalls'[rid] = tcalls[rid] + 1]_vars

\* C9 witness: a call with persist_mode = "selected" computed a frame that is
\* not in the store, after an earlier call had already invoked the transform
\* for the same realization id.
C9_Witness ==
    /\ ~lastCall.hit /\ lastCall.outcome = "ok"
    /\ lastCall.persist_mode = "selected"
    /\ lastCall.result # <<>>
    /\ tcalls[lastCall.rid] = 2
    /\ builds[lastCall.rid] = 2
    /\ StoredUnder(frames, lastCall.rid) = {}

\* Two realizations have equal fields: params compared as dicts.
SameFields(r1, r2) ==
    /\ r1.template = r2.template
    /\ r1.version = r2.version
    /\ ParamItems(r1.params) = ParamItems(r2.params)
    /\ r1.slice = r2.slice
    /\ r1.upstream_snapshot = r2.upstream_snapshot

-----------------------------------------------------------------------------
(* Calendar and grid builder: properties                                   *)

\* the business date a session label names
LabelDate(label) == label.value \div Day

\* the instant at which the calendar's local clocks read time-of-day t on
\* local date d
LocalInstant(tz, d, t) == localize(tz, d * Day + t).value

StrictlyIncreasing(values) ==
    \A i \in 1..Len(values) : \A j \in 1..Len(values) : i < j => values[i] < values[j]

InValues(p, values) == \E i \in 1..Len(values) : values[i] = p

\* C11: for every calendar zone, every range start_utc <= end_utc and every
\* supported grid token, the index build_grid_utc returns is a UTC index and
\* strictly increasing, and so is the index normalize_grid returns for any
\* event timestamps.
C11_GridUtcStrictlyIncreasing ==
    (/\ calCall.op \in {"build_grid_utc", "normalize_grid"}
     /\ calCall.start.value <= calCall.end.value
     /\ calCall.result.raised = "")
    => /\ calCall.result.tz = "UTC"
       /\ StrictlyIncreasing(calCall.result.values)

\* C12: in a zone that observes daylight saving the close of every session is
\* at the same local time of day, 16:00, so that its UTC time of day is 16:00
\* minus the offset in force on the session's date: for America/New_York
\* 21:00 UTC for a winter session and 20:00 UTC for a summer session.
C12_CloseShiftsByDstOffset ==
    (/\ calCall.op = "session_close_utc"
     /\ Cardinality(ZoneOffsets(cal.tz)) > 1)
    => LET d == LabelDate(calCall.label)
           offset == utcoffset(cal.tz, LocalInstant(cal.tz, d, CloseOffset))
       IN  time_of_day(calCall.ts) = (CloseOffset - offset) % Day

\* C13: for every calendar zone and every session label D, session_open_utc
\* is the instant the local clocks read 09:30 on local date D and
\* session_close_utc the instant they read 16:00 on local date D.
C13_OpenCloseOnLocalDate ==
    /\ calCall.op = "session_open_utc"
       => calCall.ts = [value |-> LocalInstant(cal.tz, LabelDate(calCall.label), OpenOffset),
                        tz |-> "UTC"]
    /\ calCall.op = "session_close_utc"
       => calCall.ts = [value |-> LocalInstant(cal.tz, LabelDate(calCall.label), CloseOffset),
                        tz |-> "UTC"]

\* the session labels trading_minutes_utc walks for the range of the call
WalkedLabels == sessions(cal, date(calCall.start), date(calCall.end))

C15_MinutesComplete ==
    (/\ calCall.op = "trading_minutes_utc"
     /\ calCall.start.value <= calCall.end.value)
    => \A d \in {x \in Days : IsBusinessDay(x)} :
          LET open == LocalInstant(cal.tz, d, OpenOffset)
              close == LocalInstant(cal.tz, d, CloseOffset)
              step == FreqStep(calCall.token)
          IN  \A k \in 1..((close - open) \div step) :
                 (/\ calCall.start.value <= open + k * step
                  /\ open + k * step <= calCall.end.value)
                 => InValues(open + k * step, calCall.result.values)

-----------------------------------------------------------------------------
(* Alignment engine: properties                                            *)

\* the cadence a schema declares: the explicit expected_cadence_days, else
\* 1 for business-daily and daily, 7 for weekly, 30 for monthly, 90 for
\* quarterly series; <<>> when it declares none
DeclaredCadence(schema) ==
    IF schema.expected_cadence_days # <<>> THEN schema.expected_cadence_days
    ELSE IF schema.native_freq = <<>> THEN <<>>
    ELSE IF schema.native_freq[1] \in {"B", "b", "D", "d"} THEN <<1>>
    ELSE IF schema.native_freq[1] \in {"W", "w"} THEN <<7>>
    ELSE IF schema.native_freq[1] \in {"M", "m"} THEN <<30>>
    ELSE IF schema.native_freq[1] \in {"Q", "q"} THEN <<90>>
    ELSE <<>>

LowFrequency == DeclaredCadence(alignCall.schema) # <<>> /\ DeclaredCadence(alignCall.schema)[1] > 1
DailyOrFiner == DeclaredCadence(alignCall.schema) # <<>> /\ DeclaredCadence(alignCall.schema)[1] <= 1

AlignReturned == alignCall.op = "align_panel" /\ alignCall.result.raised = ""
AlignedRows == {alignCall.result.rows[i] : i \in 1..Len(alignCall.result.rows)}

\* the raw rows of an entity whose day is the grid timestamp t, and the raw
\* value reindexed onto t
RawRowsOn(ent, t) == {r \in alignCall.panel : r.entity = ent /\ (r.ts \div Day) * Day = t}
RawReindexed(ent, t, f) ==
    IF RawRowsOn(ent, t) = {} THEN NaN ELSE (CHOOSE r \in RawRowsOn(ent, t) : TRUE).v[f]

\* a grid is malformed when it is timezone-naive or not in UTC, not sorted
\* ascending, or holds a timestamp twice
Malformed(grid) ==
    \/ grid.tz # "UTC"
    \/ \E i \in 1..Len(grid.values) : \E j \in 1..Len(grid.values) :
          i < j /\ grid.values[i] >= grid.values[j]

WellFormedReturned == AlignReturned /\ ~Malformed(alignCall.grid)

\* C16: for a series whose cadence is above one day, every grid point of
\* every entity at which observed is false has availability
\* NO_UPDATE_EXPECTED in every field, whatever the fill method and whether
\* or not the filled value is null.
C16_UnobservedIsNoUpdateExpected ==
    (AlignReturned /\ LowFrequency)
    => \A r \in AlignedRows :
          (\A f \in Fields : ~r.observed[f])
          => \A f \in Fields : r.availability[f] = NO_UPDATE_EXPECTED

\* C16 witness: a low-frequency series forward-filled onto the grid: a grid
\* point that is not observed carries a filled value and NO_UPDATE_EXPECTED.
C16_Witness ==
    /\ AlignReturned /\ LowFrequency
    /\ alignCall.align.method = "ffill"
    /\ \E r \in AlignedRows :
          /\ \A f \in Fields : ~r.observed[f]
          /\ \E f \in Fields : notna(r.value[f])
          /\ \A f \in Fields : r.availability[f] = NO_UPDATE_EXPECTED

\* C17: for a daily-or-finer series every cell whose raw reindexed value is
\* null has availability MISSING_UNKNOWN, also when other fields of the same
\* grid point are not null, and every other cell has AVAILABLE (grids sorted,
\* unique and in UTC).
C17_NullCellIsMissingUnknown ==
    (WellFormedReturned /\ DailyOrFiner)
    => \A r \in AlignedRows : \A f \in Fields :
          r.availability[f] = IF isna(RawReindexed(r.entity, r.ts, f))
                              THEN MISSING_UNKNOWN ELSE AVAILABLE

\* C18: for a series whose cadence is above one day, a grid point on which
\* the entity's raw series has a row whose fields are all null is classified
\* TEMPORARY_OUTAGE (grids sorted, unique and in UTC).
C18_NullObservationIsOutage ==
    (WellFormedReturned /\ LowFrequency)
    => \A r \in AlignedRows :
          (/\ RawRowsOn(r.entity, r.ts) # {}
           /\ \A f \in Fields : isna(RawReindexed(r.entity, r.ts, f)))
          => \A f \in Fields : r.availability[f] = TEMPORARY_OUTAGE

\* C19: observed[t, entity] is true exactly when the entity's raw series has
\* a non-null value at a timestamp on the same UTC calendar date as t, for
\* every sorted, unique UTC grid, midnight-stamped or not.
C19_ObservedIffRawValueSameDate ==
    WellFormedReturned
    => \A r \in AlignedRows : \A f \in Fields :
          r.observed[f] <=>
              \E q \in alignCall.panel :
                  /\ q.entity = r.entity
                  /\ q.ts \div Day = r.ts \div Day
                  /\ \E g \in Fields : notna(q.v[g])

\* C20: align_panel called with a malformed grid fails with a fatal
\* assertion and returns no AlignedPanel (shown for calls whose panel is not
\* empty and has one row per entity and date, and whose fill method is
\* known).
C20_MalformedGridFails ==
    (/\ alignCall.op = "align_panel"
     /\ Malformed(alignCall.grid)
     /\ alignCall.panel # {}
     /\ alignCall.align.method \in {"none", "ffill", "step_hold", "interp"}
     /\ \A r \in alignCall.panel : \A q \in alignCall.panel :
           (r.entity = q.entity /\ r.ts \div Day = q.ts \div Day) => r = q)
    => alignCall.result.raised = "AssertionError"

-----------------------------------------------------------------------------
(* Reference periods and reference entity ids: properties                  *)

\* a valid reference period: annual with period 1, quarterly with period
\* 1..4, monthly with period 1..12, in a four-digit year
ValidRefPeriod(ref) ==
    /\ ref.year \in 1..9999
    /\ \/ ref.freq = "A" /\ ref.period = 1
       \/ ref.freq = "Q" /\ ref.period \in 1..4
       \/ ref.freq = "M" /\ ref.period \in 1..12

\* the last calendar day of a month, from the calendar's table
LastDayOfMonth(year, month) ==
    CASE month \in {1, 3, 5, 7, 8, 10, 12} -> 31
      [] month \in {4, 6, 9, 11} -> 30
      [] OTHER -> IF year % 400 = 0 THEN 29
                  ELSE IF year % 100 = 0 THEN 28
                  ELSE IF year % 4 = 0 THEN 29 ELSE 28

\* the UTC date d is the last calendar day of a period of frequency freq
IsPeriodEnd(d, freq) ==
    /\ d.day = LastDayOfMonth(d.year, d.month)
    /\ \/ freq = "M"
       \/ freq = "Q" /\ d.month \in {3, 6, 9, 12}
       \/ freq = "A" /\ d.month = 12

\* the period of frequency freq the UTC date d lies in
PeriodOf(d, freq) ==
    RefPeriod(freq, d.year,
              IF freq = "A" THEN 1
              ELSE IF freq = "Q" THEN (CHOOSE q \in 1..4 : d.month \in (3 * q - 2)..(3 * q))
              ELSE d.month)

\* C21: for every valid reference period p,
\* from_obs_date_end(p.end_obs_date(), p.freq) = p; and for every timestamp
\* and frequency A, Q or M, from_obs_date_end fails with ValueError exactly
\* when the timestamp's UTC date is not the last calendar day of a period of
\* that frequency, and otherwise returns the period the date lies in.
C21_EndDateRoundTrip ==
    /\ (refCall.op = "round_trip_from_obs_end" /\ ValidRefPeriod(refCall.ref))
       => refCall.result = RefReturned(refCall.ref)
    /\ (refCall.op = "from_obs_date_end" /\ refCall.freq \in RefFreq)
       => LET d == ts_utc_midnight(refCall.ts)
          IN  IF IsPeriodEnd(d, refCall.freq)
              THEN refCall.result = RefReturned(PeriodOf(d, refCall.freq))
              ELSE refCall.result = RefRaised("ValueError")

\* C21 witness: the round trip of February of a leap year, whose end date is
\* the 29th.
C21_Witness ==
    /\ refCall.op = "round_trip_from_obs_end"
    /\ refCall.ref.freq = "M" /\ refCall.ref.period = 2 /\ refCall.ref.year = 2024
    /\ end_obs_date(refCall.ref).value.day = 29
    /\ refCall.result = RefReturned(refCall.ref)

\* C22: for every non-empty series_key and every valid reference period r,
\* parse_ref_entity_id(make_ref_entity_id(series_key, r)) returns
\* (series_key, r).
C22_RefEntityIdRoundTrip ==
    (/\ refCall.op = "ref_entity_id_helpers"
     /\ refCall.series_key # <<>>
     /\ ValidRefPeriod(refCall.ref))
    => refCall.result = RefReturned(<<refCall.series_key, refCall.ref>>)

-----------------------------------------------------------------------------
(* Dataset assembly: properties                                            *)

\* C23: when spec.time.asof = A, every row of the X and of the y that
\* build_dataset returns has ts_utc <= A, whatever the templates return and
\* for both final_row_policy values.
C23_RowsNotAfterAsof ==
    (/\ dsCall.op = "build_dataset"
     /\ dsCall.result.raised = ""
     /\ dsCall.spec.time.asof # <<>>)
    => /\ \A i \in 1..Len(dsCall.result.X) :
             dsCall.result.X[i].ts <= dsCall.spec.time.asof[1].value
       /\ \A i \in 1..Len(dsCall.result.y) :
             dsCall.result.y[i].ts <= dsCall.spec.time.asof[1].value


-----------------------------------------------------------------------------
(* The artifact store and the stages of materialize: properties            *)

\* C24: after a materialize call that missed the cache, computed a valid
\* frame f and stored it with put_frame(r, f), get_frame(r) returns a frame
\* whose value table, catalog and metadata equal those of f.
C24_StoreRoundTrip ==
    (/\ ~lastCall.hit /\ lastCall.outcome = "ok"
     /\ lastCall.persist_mode = "always")
    => get_frame(frames, lastCall.rid) = lastCall.result

\* the realization a materialize call was made for
RealizationOf(rid) == CHOOSE r \in MatRealizations : rid_of[r] = rid

\* a template of the same name and version without a fit stage
WithoutFit(template) == [template EXCEPT !.impl = "stateless"]

\* C25: when fit raises on a cache miss, materialize does not propagate the
\* error: the transform is invoked with no state, no fit state is written, no
\* lineage edge is recorded, and what the call returns, raises and stores is
\* what the same call gives with a template that has no fit stage.
C25_FitErrorSwallowed ==
    [][(ncalls' = ncalls + 1 /\ ~lastCall'.hit /\ lastCall'.fitted = "raised") =>
          LET rid == lastCall'.rid
              r == RealizationOf(rid)
          IN /\ states' = states
             /\ lineage'[1].edges = lineage[1].edges
             /\ tcalls'[rid] = tcalls[rid] + 1
             /\ lastCall'.result # <<>> => lastCall'.result[1].X.values.state = <<>>
             /\ \E tr \in TransformResults :
                   LET c == Compute(WithoutFit(lastCall'.template[1]), r, <<>>, tr)
                   IN /\ lastCall'.outcome = c.outcome
                      /\ lastCall'.result = c.frame
                      /\ frames' = IF c.outcome = "ok" /\ lastCall'.persist_mode = "always"
                                   THEN put_frame(frames, rid, c.frame[1]) ELSE frames]_vars

\* C25 witness: a call with persist_mode = "always" whose fit raised returned
\* a frame computed without state and stored it, no state and no edge written.
C25_Witness ==
    /\ ~lastCall.hit /\ lastCall.fitted = "raised"
    /\ lastCall.template[1].impl = "fit_raises"
    /\ lastCall.outcome = "ok" /\ lastCall.persist_mode = "always"
    /\ lastCall.result[1].X.values.state = <<>>
    /\ StoredUnder(frames, lastCall.rid) = {StoredFrame(lastCall.result[1])}
    /\ states = {} /\ lineage[1].edges = <<>>

\* C26: a materialize call that misses the cache and whose transform raises,
\* or whose result fails validation, returns nothing and leaves no frame
\* stored under the realization id, whatever the persist_mode; a frame that is
\* returned passes validation; and the next call for the same realization id
\* misses the cache and invokes the transform again.
C26_TransformErrorPropagates ==
    [][(ncalls' = ncalls + 1) =>
          LET rid == lastCall'.rid
          IN /\ (~lastCall'.hit /\ lastCall'.outcome # "ok") =>
                   /\ lastCall'.result = <<>>
                   /\ rid \notin returned' \ returned
                   /\ frames' = frames
                   /\ StoredUnder(frames', rid) = {}
             /\ (~lastCall'.hit /\ lastCall'.result # <<>>) =>
                   ~validate_raises(lastCall'.result[1])
             /\ (lastCall.rid = rid /\ ~lastCall.hit /\ lastCall.outcome # "ok") =>
                   /\ ~lastCall'.hit
                   /\ tcalls'[rid] = tcalls[rid] + 1]_vars

\* C26 witness: with persist_mode = "always", a call whose transform raised
\* was followed by a call for the same realization whose result failed
\* validation; the transform ran twice and no frame is stored.
C26_Witness ==
    /\ ncalls = 2
    /\ ~lastCall.hit /\ lastCall.outcome = "validate_raised"
    /\ lastCall.persist_mode = "always"
    /\ tcalls[lastCall.rid] = 2 /\ builds[lastCall.rid] = 0
    /\ lastCall.result = <<>>
    /\ StoredUnder(frames, lastCall.rid) = {}

\* the states fit can return for a call: one per fit_slice the caller can pass
FitStatesOf(template, r) ==
    {fit(template, r.params, IF fs # <<>> THEN fs[1] ELSE r.slice).st : fs \in FitSlices}

\* C30: on a cache miss in which fit returns a state, that state is in the
\* store after the call, the other states untouched, for every persist_mode
\* and also when the transform or the validation fails, and the transform was
\* handed that state; on a cache hit neither the states nor the frames change.
C30_StateStoredOnMiss ==
    [][(ncalls' = ncalls + 1) =>
          /\ (~lastCall'.hit /\ lastCall'.fitted = "state") =>
                \E st \in FitStatesOf(lastCall'.template[1], RealizationOf(lastCall'.rid)) :
                    /\ st # <<>>
                    /\ st[1] \in states'
                    /\ {q \in states' : q.state_id # st[1].state_id}
                          = {q \in states : q.state_id # st[1].state_id}
                    /\ lastCall'.result # <<>> =>
                          lastCall'.result[1].X.values.state = <<st[1].state_id>>
          /\ lastCall'.hit => (states' = states /\ frames' = frames)]_vars

\* C30 witness: a call with persist_mode = "never" whose fit returned a state
\* and whose transform raised left the state stored and no frame.
C30_Witness ==
    /\ ~lastCall.hit /\ lastCall.fitted = "state"
    /\ lastCall.persist_mode = "never"
    /\ lastCall.outcome = "transform_raised"
    /\ states # {} /\ frames = {}

-----------------------------------------------------------------------------
(* align_panel called twice: properties                                    *)

PairReturned == alignPair.resultA.raised = "" /\ alignPair.resultB.raised = ""
RowsA == {alignPair.resultA.rows[i] : i \in 1..Len(alignPair.resultA.rows)}
RowsB == {alignPair.resultB.rows[i] : i \in 1..Len(alignPair.resultB.rows)}

\* the raw rows of an entity stamped at or before t
RawUpTo(panel, ent, t) == {r \in panel : r.entity = ent /\ r.ts <= t}

\* C27: for every fill method and every grid point t, two panels that agree
\* on an entity's rows stamped at or before t give the same value, observed
\* flag and availability at (t, entity).
C27_NoLookAhead ==
    (alignPair.op = "two_panels" /\ PairReturned)
    => \A a \in RowsA : \A b \in RowsB :
          (/\ a.ts = b.ts /\ a.entity = b.entity /\ a.pos = b.pos
           /\ RawUpTo(alignPair.panelA, a.entity, a.ts)
                 = RawUpTo(alignPair.panelB, a.entity, a.ts))
          => a = b

\* C28: for one panel, schema, grid, method and max_fill_gap_days, any two
\* choices of asof and respect_asof give the same result, which is the result
\* of the call without asof; raw rows later than asof are not removed.
C28_AsofIgnored ==
    alignPair.op = "two_asofs"
    => /\ alignPair.resultA = alignPair.resultB
       /\ alignPair.resultA
             = align_panel(alignPair.panelA, alignPair.schema, alignPair.grid,
                           [method |-> alignPair.alignA.method,
                            max_fill_gap_days |-> alignPair.alignA.max_fill_gap_days])

\* C28 witness: with respect_asof set and asof at the first grid point, a raw
\* value stamped on the second day is observed at the second grid point, as
\* in the call without asof.
C28_Witness ==
    /\ alignPair.op = "two_asofs" /\ PairReturned
    /\ alignPair.alignA.respect_asof /\ alignPair.asofA = <<UtcMidnight(0)>>
    /\ ~alignPair.alignB.respect_asof /\ alignPair.asofB = <<>>
    /\ \E r \in alignPair.panelA :
          /\ r.ts = Day /\ notna(r.v["x"])
          /\ \E a \in RowsA : a.ts = Day /\ a.observed["x"] /\ a.value["x"] = r.v["x"]
    /\ alignPair.resultA = alignPair.resultB

-----------------------------------------------------------------------------
(* upsert over all columns: properties                                     *)

NonKeyColumns ==
    {"value", "release_time_utc", "revision_id", "source", "meta_json", "ingested_utc"}

\* the stored row of key k
StoredRow(t, k) == CHOOSE q \in t : NaturalKey(q) = k

\* rows with keys that do not come in are left as they were, every stored key
\* stays stored once, and no incoming key is stored twice
OtherRowsUntouched ==
    /\ {q \in fullTable' : \A r \in fullOp'.incoming : NaturalKey(r) # NaturalKey(q)}
          = {q \in fullTable : \A r \in fullOp'.incoming : NaturalKey(r) # NaturalKey(q)}
    /\ {NaturalKey(q) : q \in fullTable} \subseteq {NaturalKey(q) : q \in fullTable'}
    /\ \A q1 \in fullTable' : \A q2 \in fullTable' : NaturalKey(q1) = NaturalKey(q2) => q1 = q2

\* C29 as stated: after a successful upsert, the stored row of every incoming
\* key that existed already has each non-key field equal to the incoming
\* row's field, and null in every optional column the frame does not supply;
\* the rows of other keys are unchanged.
C29_UpsertReplacesAllFields ==
    [][(fullOp'.op = "upsert" /\ fullOp'.outcome = "ok" /\ fullOp' # fullOp) =>
          /\ \A r \in fullOp'.incoming :
                (\E q \in fullTable : NaturalKey(q) = NaturalKey(r)) =>
                    \A col \in NonKeyColumns :
                        StoredRow(fullTable', NaturalKey(r))[col]
                            = IF col \in fullOp'.columns THEN r[col] ELSE NullOf(col)
          /\ OtherRowsUntouched]_vars

\* C29, amended: as C29, except that ingested_utc, when the frame does not
\* supply it, is replaced by the time of the call and not by null.
C29_UpsertReplacesAllFieldsIngestedNow ==
    [][(fullOp'.op = "upsert" /\ fullOp'.outcome = "ok" /\ fullOp' # fullOp) =>
          /\ \A r \in fullOp'.incoming :
                (\E q \in fullTable : NaturalKey(q) = NaturalKey(r)) =>
                    \A col \in NonKeyColumns :
                        StoredRow(fullTable', NaturalKey(r))[col]
                            = IF col \in fullOp'.columns THEN r[col]
                              ELSE IF col = "ingested_utc"
                              THEN [wall |-> fullOp'.now.wall, tz |-> "naive"]
                              ELSE NullOf(col)
          /\ OtherRowsUntouched]_vars

\* C29 witness: a stored row with every optional field set was overwritten by
\* a frame of the required columns only: its optional fields are null, its
\* ingested_utc is the time of the call, and a row of another key is stored.
C29_Witness ==
    /\ fullOp.op = "upsert" /\ fullOp.outcome = "ok"
    /\ fullOp.columns = RequiredColumns
    /\ Cardinality(fullTable) = 2
    /\ \E r \in fullOp.incoming : \E q \in fullTable :
          /\ NaturalKey(q) = NaturalKey(r)
          /\ q["value"] = <<20>>
          /\ q["release_time_utc"] = None /\ q["revision_id"] = NaN
          /\ q["source"] = NaN /\ q["meta_json"] = NaN
          /\ q["ingested_utc"] = [wall |-> fullOp.now.wall, tz |-> "naive"]
    /\ \E q \in fullTable : q["source"] = <<"fred">>

====
